---- MODULE Spec2Model ----
(***************************************************************************)
(* The freehand annotation engine of the note editor: the drawing surface  *)
(* of src/src/components/HandwrittenBlock.vue (pointer gestures, eraser,   *)
(* simplifier, undo/redo, pan/zoom transform, SVG codec and save/load).    *)
(*                                                                         *)
(* Numbers.  JavaScript numbers are modelled by exact rationals <<n, d>>   *)
(* in lowest terms (d > 0), so every arithmetic result below is the real   *)
(* number the source's expression denotes; IEEE-754 rounding is not        *)
(* modelled.                                                               *)
(***************************************************************************)
EXTENDS Integers, Sequences, FiniteSets, TLC

-----------------------------------------------------------------------------
(* Rational arithmetic: the +, -, *, /, < and Math.min/max/sign of the source *)

Abs(n) == IF n < 0 THEN -n ELSE n

RECURSIVE GCD(_, _)
GCD(a, b) == IF b = 0 THEN a ELSE IF b = 1 THEN 1 ELSE GCD(b, a % b)

Norm(n, d) ==
    LET g == GCD(Abs(n), Abs(d))
        s == IF d < 0 THEN -1 ELSE 1
    IN  <<(s * n) \div g, (s * d) \div g>>

Num(n) == <<n, 1>>

\* a + b over the least common denominator
RAdd(a, b) ==
    LET g == GCD(a[2], b[2])
    IN  Norm(a[1] * (b[2] \div g) + b[1] * (a[2] \div g), (a[2] \div g) * b[2])
RSub(a, b) == RAdd(a, <<-b[1], b[2]>>)

\* a * b, cancelling across before multiplying
RMul(a, b) ==
    LET g1 == GCD(Abs(a[1]), b[2])
        g2 == GCD(Abs(b[1]), a[2])
    IN  Norm((a[1] \div g1) * (b[1] \div g2), (a[2] \div g2) * (b[2] \div g1))

\* a / b for b # 0
RDiv(a, b) == RMul(a, IF b[1] < 0 THEN <<-b[2], -b[1]>> ELSE <<b[2], b[1]>>)

\* a < b
RLt(a, b) ==
    LET g == GCD(a[2], b[2])
    IN  a[1] * (b[2] \div g) < b[1] * (a[2] \div g)
RMin(a, b) == IF RLt(b, a) THEN b ELSE a
RMax(a, b) == IF RLt(a, b) THEN b ELSE a
RSign(a)   == IF a[1] > 0 THEN Num(1) ELSE IF a[1] < 0 THEN Num(-1) ELSE Num(0)
Zero == Num(0)

\* the value of an expression, computed once: the element of a singleton
Only(S) == CHOOSE x \in S : TRUE

Pt(x, y) == [x |-> x, y |-> y]
IPt(i, j) == Pt(Num(i), Num(j))

-----------------------------------------------------------------------------
(* Program constants *)

LINE_WIDTH == 3
ERASER_RADIUS == 10
\* tolerance 0.5 passed to simplify by smoothStroke
SmoothTolerance == <<1, 2>>
\* zoomIntensity = 0.1
ZoomIntensity == <<1, 10>>
\* Math.min(Math.max(0.1, ...), 5)
MinScale == <<1, 10>>
MaxScale == <<5, 1>>
\* const padding = 20
Padding == 20

-----------------------------------------------------------------------------
(* Bounds of the model *)

\* decimal places NumberText writes for a non-integer number
FracDigits == 3
-----------------------------------------------------------------------------
(* Geometry: getSqSegDist and the RDP simplifier *)

\* squared distance from point p to segment p1-p2
getSqSegDist(p, p1, p2) ==
    LET x0 == p1.x
        y0 == p1.y
        dx0 == RSub(p2.x, x0)
        dy0 == RSub(p2.y, y0)
        moving == dx0 # Zero \/ dy0 # Zero
        t == IF moving
             THEN RDiv(RAdd(RMul(RSub(p.x, x0), dx0), RMul(RSub(p.y, y0), dy0)),
                       RAdd(RMul(dx0, dx0), RMul(dy0, dy0)))
             ELSE Zero
        x == IF moving /\ RLt(Num(1), t) THEN p2.x
             ELSE IF moving /\ RLt(Zero, t) THEN RAdd(x0, RMul(dx0, t))
             ELSE x0
        y == IF moving /\ RLt(Num(1), t) THEN p2.y
             ELSE IF moving /\ RLt(Zero, t) THEN RAdd(y0, RMul(dy0, t))
             ELSE y0
        dx == RSub(p.x, x)
        dy == RSub(p.y, y)
    IN  RAdd(RMul(dx, dx), RMul(dy, dy))

\* a scan that splits at the first interior point whenever some interior
\* point is farther than the tolerance
RECURSIVE ScanAny(_, _, _, _, _, _)
ScanAny(points, first, last, i, maxSqDist, index) ==
    IF i >= last THEN index
    ELSE IF RLt(maxSqDist, getSqSegDist(points[i], points[first], points[last]))
         THEN first + 1
         ELSE ScanAny(points, first, last, i + 1, maxSqDist, index)

\* the for loop of simplifyDP: scans i = first+1 .. last-1 keeping the first
\* index whose distance is strictly above the running maximum
RECURSIVE ScanMax(_, _, _, _, _, _)
ScanMax(points, first, last, i, maxSqDist, index) ==
    IF i >= last THEN index
    ELSE LET sqDist == getSqSegDist(points[i], points[first], points[last])
         IN  IF RLt(maxSqDist, sqDist)
             THEN ScanMax(points, first, last, i + 1, sqDist, i)
             ELSE ScanMax(points, first, last, i + 1, maxSqDist, index)

\* a recursion that keeps no interior point
simplifyDPFlat(points, first, last, sqTol, out) == out

\* simplifyDP: returns out with the kept interior points appended
\* (indices are 1-based here; index 0 stands for the source's -1)
RECURSIVE simplifyDP(_, _, _, _, _)
simplifyDP(points, first, last, sqTol, out) ==
    LET index == ScanMax(points, first, last, first + 1, sqTol, 0)
    IN  IF index > 0
        THEN simplifyDP(points, index, last, sqTol,
                 Append(simplifyDP(points, first, index, sqTol, out), points[index]))
        ELSE out

\* a simplifier that never re-appends the last point
simplifyOpenEnded(points, tolerance) ==
    IF Len(points) < 3 THEN points
    ELSE simplifyDP(points, 1, Len(points), RMul(tolerance, tolerance), <<points[1]>>)

simplify(points, tolerance) ==
    IF Len(points) < 3 THEN points
    ELSE LET sqTolerance == RMul(tolerance, tolerance)
             out == simplifyDP(points, 1, Len(points), sqTolerance, <<points[1]>>)
         IN  \* lastPoint !== firstPoint compares object identity: two distinct
             \* elements of the captured buffer are never the same object
             Append(out, points[Len(points)])

\* a smoothing that commits the buffer as it was captured
smoothStrokeRaw(points) == points

\* a smoothing that keeps one point of a buffer whose points are all the same
smoothStrokeDistinct(points) ==
    IF \A i \in 1 .. Len(points) : points[i] = points[1]
    THEN SubSeq(points, 1, 1)
    ELSE IF Len(points) < 3 THEN points ELSE simplify(points, SmoothTolerance)

smoothStroke(points) ==
    IF Len(points) < 3 THEN points ELSE simplify(points, SmoothTolerance)

-----------------------------------------------------------------------------
(* State of one drawing surface (the refs of the component) and of its     *)
(* environment (the block prop, the canvas rectangle, the asset storage).  *)

VARIABLES
    strokes,        \* strokes.value: committed strokes, oldest first
    redoStack,      \* redoStack.value
    currentStroke,  \* currentStroke.value: the in-progress point buffer
    isDrawing,      \* isDrawing.value
    isPanning,      \* isPanning.value
    scale,          \* scale.value
    offset,         \* offset.value
    lastPan,        \* lastPan.value
    isSpacePressed, \* isSpacePressed.value
    currentTool,    \* currentTool.value: "pencil" or "eraser"
    background,     \* backgroundImage / bgImageWidth / bgImageHeight
    rect,           \* canvasRef.value.getBoundingClientRect(): left, top
    markdown,       \* props.block.markdown, a text
    assets,         \* the asset storage: file name -> artifact
    pendingSave,    \* the save() calls suspended at await fileService.saveAsset
    pendingLoad,    \* the loadFromMarkdown() calls suspended at their awaits
    emitted,        \* the event the last handler emitted to the host, if any
    notified,       \* what the last handler told the user: "alert", "log" or ""
    peers,          \* the refs of the other handwritten blocks mounted with it
    docOnDisk,      \* props.rootHandle && props.currentFilePath are set
    currentFilePath,\* props.currentFilePath, a text
    lastOp,         \* the handler that ran last, with its inputs
    clock           \* the number of save() calls that reached the asset write

vars == <<strokes, redoStack, currentStroke, isDrawing, isPanning, scale, offset,
          lastPan, isSpacePressed, currentTool, background, rect, markdown,
          assets, pendingSave, pendingLoad, emitted, notified, peers, docOnDisk,
          currentFilePath,
          lastOp, clock>>

surface == <<strokes, redoStack, currentStroke, isDrawing, isPanning, scale,
             offset, lastPan, isSpacePressed, currentTool, background>>

\* the empty string of block.markdown
NoRef == <<>>
NoBackground == [href |-> "", w |-> Zero, h |-> Zero]

-----------------------------------------------------------------------------
(* Coordinate mapping *)

\* toVirtual with the canvas mounted (canvasRef.value non-null)
toVirtualAt(clientX, clientY, r, off, sc) ==
    Pt(RDiv(RSub(RSub(clientX, r.left), off.x), sc),
       RDiv(RSub(RSub(clientY, r.top), off.y), sc))

toVirtual(clientX, clientY) == toVirtualAt(clientX, clientY, rect, offset, scale)

\* a virtual-to-screen mapping that forgets the scale
toScreenAtUnscaled(vx, vy, off, sc) == Pt(RAdd(vx, off.x), RAdd(vy, off.y))

toScreenAt(vx, vy, off, sc) ==
    Pt(RAdd(RMul(vx, sc), off.x), RAdd(RMul(vy, sc), off.y))

toScreen(vx, vy) == toScreenAt(vx, vy, offset, scale)

\* The pointer positions the environment produces: the device point that lies
\* over virtual point v in the current view of the canvas.
ClientOver(v) ==
    Pt(RAdd(RAdd(RMul(v.x, scale), offset.x), rect.left),
       RAdd(RAdd(RMul(v.y, scale), offset.y), rect.top))

\* the device point the pointer reaches when it moves by v virtual units
\* from where the last pan event left it
DraggedBy(v) ==
    Pt(RAdd(lastPan.x, RMul(v.x, scale)), RAdd(lastPan.y, RMul(v.y, scale)))

-----------------------------------------------------------------------------
(* Undo / redo *)

Last(s) == s[Len(s)]
Front(s) == SubSeq(s, 1, Len(s) - 1)

\* an undo that pops the last stroke without pushing it onto the redo stack
undoDiscarding(st, rd) ==
    IF Len(st) = 0 THEN <<st, rd>>
    ELSE <<Front(st), rd>>

\* undo(): <<strokes, redoStack>> after the call
undo(st, rd) ==
    IF Len(st) = 0 THEN <<st, rd>>
    ELSE <<Front(st), Append(rd, Last(st))>>

\* a redo that leaves the entry it restored on the redo stack
redoKeeping(st, rd) ==
    IF Len(rd) = 0 THEN <<st, rd>>
    ELSE <<Append(st, Last(rd)), rd>>

\* redo(): <<strokes, redoStack>> after the call
redo(st, rd) ==
    IF Len(rd) = 0 THEN <<st, rd>>
    ELSE <<Append(st, Last(rd)), Front(rd)>>

-----------------------------------------------------------------------------
(* Eraser *)

\* a filter that measures the distance to the stroke's points only
eraseKeepsByPoints(stroke, p, thresholdSq) ==
    \A i \in 1 .. Len(stroke) - 1 :
        /\ ~ RLt(getSqSegDist(p, stroke[i], stroke[i]), thresholdSq)
        /\ ~ RLt(getSqSegDist(p, stroke[i + 1], stroke[i + 1]), thresholdSq)

\* the filter callback of eraseAt: TRUE when the stroke is kept
eraseKeeps(stroke, p, thresholdSq) ==
    \A i \in 1 .. Len(stroke) - 1 :
        ~ RLt(getSqSegDist(p, stroke[i], stroke[i + 1]), thresholdSq)

\* strokes.value after eraseAt(p) at scale sc
eraseAt(st, p, sc) ==
    LET threshold == RDiv(Num(ERASER_RADIUS), sc)
        thresholdSq == RMul(threshold, threshold)
    IN  SelectSeq(st, LAMBDA stroke : eraseKeeps(stroke, p, thresholdSq))

-----------------------------------------------------------------------------
(* Zoom *)

\* no clamping
clampScaleOpen(s) == s

\* Math.min(Math.max(0.1, scale + delta), 5)
clampScale(s) == RMin(RMax(MinScale, s), MaxScale)

\* a zoom that changes the scale and leaves the offset alone
handleWheelZoomUnanchored(deltaY, clientX, clientY, r, off, sc) ==
    <<clampScale(RAdd(sc, RMul(RSub(Zero, RSign(deltaY)), ZoomIntensity))), off>>

\* handleWheel with ctrl/meta held: <<scale, offset>> after the event;
\* deltaY is the wheel delta, (clientX, clientY) the device point
handleWheelZoom(deltaY, clientX, clientY, r, off, sc) ==
    LET delta == RMul(RSub(Zero, RSign(deltaY)), ZoomIntensity)
        newScale == clampScale(RAdd(sc, delta))
        mouseX == RSub(clientX, r.left)
        mouseY == RSub(clientY, r.top)
        virtualX == RDiv(RSub(mouseX, off.x), sc)
        virtualY == RDiv(RSub(mouseY, off.y), sc)
    IN  <<newScale,
          Pt(RSub(mouseX, RMul(virtualX, newScale)),
             RSub(mouseY, RMul(virtualY, newScale)))>>

-----------------------------------------------------------------------------
(* Codec: text.  A text is a sequence of one-character strings.            *)

Digits == <<"0", "1", "2", "3", "4", "5", "6", "7", "8", "9">>
IsDigit(c) == \E i \in 1 .. 10 : Digits[i] = c
DigitVal(c) == (CHOOSE i \in 1 .. 10 : Digits[i] = c) - 1

RECURSIVE NatText(_)
NatText(n) ==
    IF n < 10 THEN <<Digits[n + 1]>>
    ELSE NatText(n \div 10) \o <<Digits[(n % 10) + 1]>>

\* digits after the decimal point of rem/d (0 <= rem < d), at most k of them
RECURSIVE FracText(_, _, _)
FracText(rem, d, k) ==
    IF rem = 0 \/ k = 0 THEN <<>>
    ELSE <<Digits[((rem * 10) \div d) + 1]>> \o FracText((rem * 10) % d, d, k - 1)

\* Number::toString for a finite number: sign, integer digits, and the
\* decimal fraction when there is one
NumberText(r) ==
    LET a == Abs(r[1])
    IN  (IF r[1] < 0 THEN <<"-">> ELSE <<>>)
        \o NatText(a \div r[2])
        \o (IF a % r[2] = 0 THEN <<>>
            ELSE <<".">> \o FracText(a % r[2], r[2], FracDigits))

PointText(pt) ==
    <<"{", "\"", "x", "\"", ":">> \o NumberText(pt.x)
    \o <<",", "\"", "y", "\"", ":">> \o NumberText(pt.y) \o <<"}">>

\* JSON.stringify of an array: its elements from the i-th on, comma-separated
RECURSIVE PointsText(_, _)
PointsText(stroke, i) ==
    IF i > Len(stroke) THEN <<>>
    ELSE (IF i > 1 THEN <<",">> ELSE <<>>) \o PointText(stroke[i])
         \o PointsText(stroke, i + 1)

StrokeText(stroke) == <<"[">> \o PointsText(stroke, 1) \o <<"]">>

RECURSIVE StrokesText(_, _)
StrokesText(st, i) ==
    IF i > Len(st) THEN <<>>
    ELSE (IF i > 1 THEN <<",">> ELSE <<>>) \o StrokeText(st[i])
         \o StrokesText(st, i + 1)

\* JSON.stringify(strokes.value)
JSONstringify(st) == <<"[">> \o StrokesText(st, 1) \o <<"]">>

Quot == <<"&", "q", "u", "o", "t", ";">>
StartsWith(t, i, lit) ==
    /\ i + Len(lit) - 1 <= Len(t)
    /\ lit = <<>> \/ t[i] = lit[1]
    /\ SubSeq(t, i, i + Len(lit) - 1) = lit

\* strokeJson.replace(/"/g, '&quot;'): every character on its own, the
\* text taken by halves
RECURSIVE EncodeQuotes(_)
EncodeQuotes(t) ==
    IF Len(t) = 0 THEN <<>>
    ELSE IF Len(t) = 1 THEN (IF t[1] = "\"" THEN Quot ELSE t)
    ELSE EncodeQuotes(SubSeq(t, 1, Len(t) \div 2))
         \o EncodeQuotes(SubSeq(t, (Len(t) \div 2) + 1, Len(t)))

\* a text content that leaves the entities as they are written
TextContentRaw(t, i) == SubSeq(t, i, Len(t))

\* what the XML parser, reading t from position from on, makes of position
\* k: the quote for the start of an entity, nothing for the rest of an
\* entity, the character itself otherwise (entities cannot overlap: only
\* their first character is an ampersand)
Decoded(t, from, k) ==
    IF StartsWith(t, k, Quot) THEN <<"\"">>
    ELSE IF \E j \in 1 .. Len(Quot) - 1 : k - j >= from /\ StartsWith(t, k - j, Quot)
    THEN <<>>
    ELSE <<t[k]>>

RECURSIVE DecodedRange(_, _, _, _)
DecodedRange(t, from, lo, hi) ==
    IF lo > hi THEN <<>>
    ELSE IF lo = hi THEN Decoded(t, from, lo)
    ELSE DecodedRange(t, from, lo, (lo + hi) \div 2)
         \o DecodedRange(t, from, ((lo + hi) \div 2) + 1, hi)

\* desc.textContent: the XML parser replaces the entity by the character
TextContent(t, i) == DecodedRange(t, i, i, Len(t))

(* JSON.parse of the text JSON.stringify wrote.  Each parser returns       *)
(* [ok, val, next]: whether it matched at position i, the value, and the   *)
(* position after it.                                                      *)

Fail == [ok |-> FALSE, val |-> <<>>, next |-> 0]
Ok(v, n) == [ok |-> TRUE, val |-> v, next |-> n]

\* a run of digits from position i: [n: its value, scale: 10^(digits), next]
RECURSIVE ParseDigits(_, _, _, _)
ParseDigits(t, i, n, sc) ==
    IF i <= Len(t) /\ IsDigit(t[i])
    THEN ParseDigits(t, i + 1, n * 10 + DigitVal(t[i]), sc * 10)
    ELSE [n |-> n, scale |-> sc, next |-> i]

ParseNumber(t, i) ==
    LET neg == i <= Len(t) /\ t[i] = "-"
        j == IF neg THEN i + 1 ELSE i
        int == ParseDigits(t, j, 0, 1)
        hasFrac == int.next <= Len(t) /\ t[int.next] = "."
        frac == IF hasFrac THEN ParseDigits(t, int.next + 1, 0, 1)
                ELSE [n |-> 0, scale |-> 1, next |-> int.next]
        mag == RAdd(Num(int.n), Norm(frac.n, frac.scale))
    IN  IF int.next = j \/ (hasFrac /\ frac.next = int.next + 1) THEN Fail
        ELSE Ok(IF neg THEN RSub(Zero, mag) ELSE mag, frac.next)

ParsePoint(t, i) ==
    LET kx == <<"{", "\"", "x", "\"", ":">>
        ky == <<",", "\"", "y", "\"", ":">>
        x == IF StartsWith(t, i, kx) THEN ParseNumber(t, i + Len(kx)) ELSE Fail
        y == IF x.ok /\ StartsWith(t, x.next, ky)
             THEN ParseNumber(t, x.next + Len(ky)) ELSE Fail
    IN  IF y.ok /\ StartsWith(t, y.next, <<"}">>)
        THEN Ok(Pt(x.val, y.val), y.next + 1) ELSE Fail

\* the rest of a stroke's points, e being the result for the point just read
RECURSIVE ParsePointsFrom(_, _, _)
ParsePointsFrom(t, e, acc) ==
    IF ~ e.ok THEN Fail
    ELSE IF StartsWith(t, e.next, <<"]">>) THEN Ok(Append(acc, e.val), e.next + 1)
    ELSE IF StartsWith(t, e.next, <<",">>)
         THEN ParsePointsFrom(t, ParsePoint(t, e.next + 1), Append(acc, e.val))
    ELSE Fail

\* the points of a stroke after its "[", up to and including its "]"
ParsePoints(t, i) ==
    IF StartsWith(t, i, <<"]">>) THEN Ok(<<>>, i + 1)
    ELSE ParsePointsFrom(t, ParsePoint(t, i), <<>>)

ParseStroke(t, i) ==
    IF StartsWith(t, i, <<"[">>) THEN ParsePoints(t, i + 1) ELSE Fail

\* the rest of the list's strokes, e being the result for the stroke just read
RECURSIVE ParseStrokesFrom(_, _, _)
ParseStrokesFrom(t, e, acc) ==
    IF ~ e.ok THEN Fail
    ELSE IF StartsWith(t, e.next, <<"]">>) THEN Ok(Append(acc, e.val), e.next + 1)
    ELSE IF StartsWith(t, e.next, <<",">>)
         THEN ParseStrokesFrom(t, ParseStroke(t, e.next + 1), Append(acc, e.val))
    ELSE Fail

\* the strokes of the list after its "[", up to and including its "]"
ParseStrokes(t, i) ==
    IF StartsWith(t, i, <<"]">>) THEN Ok(<<>>, i + 1)
    ELSE ParseStrokesFrom(t, ParseStroke(t, i), <<>>)

\* a parse is complete when it consumed the whole text
WholeText(r, t) == IF r.ok /\ r.next = Len(t) + 1 THEN r ELSE Fail

\* the JSON literals null, true and false
JSONLiterals == {"null", "true", "false"}
LiteralText(lit) ==
    IF lit = "null" THEN <<"n", "u", "l", "l">>
    ELSE IF lit = "true" THEN <<"t", "r", "u", "e">>
    ELSE <<"f", "a", "l", "s", "e">>

\* Array.isArray for the values JSON.parse returns here
\* The value JSON.parse returns for a literal.  It is not an array; so that
\* it can be held in strokes and compared with arrays of strokes, it is
\* written as a one-point stroke list whose coordinates have denominator 0,
\* which no number has.
LiteralValue(lit) ==
    <<<<Pt(<<IF lit = "null" THEN 0 ELSE IF lit = "true" THEN 1 ELSE 2, 0>>,
           <<0, 0>>)>>>>

IsArray(v) == \A lit \in JSONLiterals : v # LiteralValue(lit)

\* JSON.parse(text): ok is FALSE where JSON.parse throws
JSONparse(t) ==
    IF \E lit \in JSONLiterals : t = LiteralText(lit)
    THEN Ok(LiteralValue(CHOOSE lit \in JSONLiterals : t = LiteralText(lit)),
            Len(t) + 1)
    ELSE WholeText(IF StartsWith(t, 1, <<"[">>) THEN ParseStrokes(t, 2) ELSE Fail, t)

-----------------------------------------------------------------------------
(* Codec: the artifact *)

\* generateSvg's null
NoArtifact == [null |-> TRUE]
\* Infinity and -Infinity, outside the rationals (denominator 0)
Infinity == <<1, 0>>
NegInfinity == <<-1, 0>>
\* no <image> element
NoImage == [href |-> "", x |-> Zero, y |-> Zero, width |-> <<>>, height |-> <<>>]

\* every point of every stroke, in order
RECURSIVE AllPoints(_)
AllPoints(all) == IF all = <<>> THEN <<>> ELSE Head(all) \o AllPoints(Tail(all))

\* Math.min / Math.max folded over the points, from a start value that may
\* be Infinity / -Infinity
RECURSIVE FoldMin(_, _, _)
FoldMin(acc, pts, i) ==
    IF i > Len(pts) THEN acc
    ELSE FoldMin(IF acc = Infinity THEN pts[i] ELSE RMin(acc, pts[i]), pts, i + 1)

RECURSIVE FoldMax(_, _, _)
FoldMax(acc, pts, i) ==
    IF i > Len(pts) THEN acc
    ELSE FoldMax(IF acc = NegInfinity THEN pts[i] ELSE RMax(acc, pts[i]), pts, i + 1)

Xs(pts) == [i \in 1 .. Len(pts) |-> pts[i].x]
Ys(pts) == [i \in 1 .. Len(pts) |-> pts[i].y]

\* a - b and a + b where a may be infinite and b is finite
XSub(a, b) == IF a \in {Infinity, NegInfinity} THEN a ELSE RSub(a, b)
XAdd(a, b) == IF a \in {Infinity, NegInfinity} THEN a ELSE RAdd(a, b)
\* hi - lo for the padded bounds: -Infinity - Infinity when the box is empty
XSpan(hi, lo) == IF hi = NegInfinity THEN NegInfinity ELSE RSub(hi, lo)
\* 0 - minX
XNeg(a) == IF a = Infinity THEN NegInfinity ELSE RSub(Zero, a)

\* the M/L commands of one stroke: its points translated by (minX, minY)
Translated(stroke, minX, minY) ==
    [i \in 1 .. Len(stroke) |-> Pt(RSub(stroke[i].x, minX), RSub(stroke[i].y, minY))]

\* a null test that ignores the background image
producesNothingWithoutStrokes(allStrokes, bg) == Len(allStrokes) = 0

\* "If no image and no strokes, return null but allow just image"
producesNothing(allStrokes, bg) == Len(allStrokes) = 0 /\ bg.href = ""

\* generateSvg(): NoArtifact for null, else the fields of the SVG text
generateSvg(st, cur, bg) ==
    LET bgBox == bg.href # "" /\ RLt(Zero, bg.w) /\ RLt(Zero, bg.h)
        allStrokes == st \o (IF Len(cur) > 0 THEN <<cur>> ELSE <<>>)
        pts == AllPoints(allStrokes)
        minX0 == FoldMin(IF bgBox THEN Zero ELSE Infinity, Xs(pts), 1)
        minY0 == FoldMin(IF bgBox THEN Zero ELSE Infinity, Ys(pts), 1)
        maxX0 == FoldMax(IF bgBox THEN bg.w ELSE NegInfinity, Xs(pts), 1)
        maxY0 == FoldMax(IF bgBox THEN bg.h ELSE NegInfinity, Ys(pts), 1)
        minX == XSub(minX0, Num(Padding))
        minY == XSub(minY0, Num(Padding))
        maxX == XAdd(maxX0, Num(Padding))
        maxY == XAdd(maxY0, Num(Padding))
        drawn == SelectSeq(allStrokes, LAMBDA stroke : Len(stroke) >= 2)
    IN  IF producesNothing(allStrokes, bg) THEN NoArtifact
        ELSE [width  |-> XSpan(maxX, minX),
              height |-> XSpan(maxY, minY),
              image  |-> IF bg.href # ""
                         THEN [href |-> bg.href, x |-> XNeg(minX), y |-> XNeg(minY),
                               width |-> NumberText(bg.w), height |-> NumberText(bg.h)]
                         ELSE NoImage,
              desc   |-> EncodeQuotes(JSONstringify(st)),
              path   |-> [i \in 1 .. Len(drawn) |-> Translated(drawn[i], minX, minY)]]

\* The earlier version of the component (src/unnamed/part_012), whose
\* background is markup (backgroundHtml) carried in a foreignObject.
FullSize == <<"1", "0", "0", "%">>

\* generateSvg() of that version; bg.href holds backgroundHtml
generateSvgMarkup(st, cur, bg) ==
    LET allStrokes == st \o (IF Len(cur) > 0 THEN <<cur>> ELSE <<>>)
        pts == AllPoints(allStrokes)
        minX == XSub(FoldMin(Infinity, Xs(pts), 1), Num(Padding))
        minY == XSub(FoldMin(Infinity, Ys(pts), 1), Num(Padding))
        maxX == XAdd(FoldMax(NegInfinity, Xs(pts), 1), Num(Padding))
        maxY == XAdd(FoldMax(NegInfinity, Ys(pts), 1), Num(Padding))
        drawn == SelectSeq(allStrokes, LAMBDA stroke : Len(stroke) >= 2)
    IN  IF Len(allStrokes) = 0 THEN NoArtifact
        ELSE [width  |-> XSpan(maxX, minX),
              height |-> XSpan(maxY, minY),
              \* <foreignObject width="100%" height="100%" x="0" y="0">
              image  |-> IF bg.href # ""
                         THEN [href |-> bg.href, x |-> Zero, y |-> Zero,
                               width |-> FullSize, height |-> FullSize]
                         ELSE NoImage,
              desc   |-> EncodeQuotes(JSONstringify(st)),
              path   |-> [i \in 1 .. Len(drawn) |-> Translated(drawn[i], minX, minY)]]

\* parseFloat(image.getAttribute(name) || '0') for the text save wrote
parseFloatAttr(t) ==
    LET r == ParseNumber(IF t = <<>> THEN <<"0">> ELSE t, 1) IN r.val

\* The synchronous tail of loadFromMarkdown, after file.text() resolved with
\* the artifact: <<strokes, background, threw>> after it.  JSON.parse throws
\* on a text that is not JSON; drawAll() throws on a strokes value that is
\* not iterable (for ... of); either throw is caught by the try block,
\* which skips the rest.
loadParsedMarkup(art, st, bg) ==
    Only({ Only({ IF text # <<>> /\ ~ parsed.ok THEN <<st, bg, TRUE>>
                  ELSE IF text # <<>> /\ ~ IsArray(parsed.val)
                  THEN <<parsed.val, bg, TRUE>>
                  ELSE <<IF text # <<>> THEN parsed.val ELSE st,
                         \* backgroundHtml.value = foreignObject.innerHTML
                         IF art.image.href # ""
                         THEN [href |-> art.image.href, w |-> Zero, h |-> Zero]
                         ELSE bg,
                         FALSE>>
                  : parsed \in {JSONparse(text)} })
           : text \in {TextContent(art.desc, 1)} })

loadParsed(art, st, bg) ==
    Only({ Only({ IF text # <<>> /\ ~ parsed.ok THEN <<st, bg, TRUE>>
                  ELSE IF text # <<>> /\ ~ IsArray(parsed.val)
                  THEN <<parsed.val, bg, TRUE>>
                  ELSE <<IF text # <<>> THEN parsed.val ELSE st,
                         IF art.image.href # ""
                         THEN [href |-> art.image.href,
                               w |-> parseFloatAttr(art.image.width),
                               h |-> parseFloatAttr(art.image.height)]
                         ELSE bg,
                         FALSE>>
                  : parsed \in {JSONparse(text)} })
           : text \in {TextContent(art.desc, 1)} })

\* the artifact convertBlockToHandwriting writes for a block of width w and
\* height h: the screenshot as background, no strokes
ConvertedArtifact(w, h) ==
    [width |-> w, height |-> h,
     image |-> [href |-> "data:image/png", x |-> Zero, y |-> Zero,
                width |-> NumberText(w), height |-> NumberText(h)],
     desc |-> <<"[", "]">>,
     path |-> <<>>]

-----------------------------------------------------------------------------
(* References and storage paths.  A path and a reference are texts; the    *)
(* string methods below are those the component calls on them.             *)

\* the first position at or after i where lit occurs in t; 0 when none
RECURSIVE Find(_, _, _)
Find(t, lit, i) ==
    IF i + Len(lit) - 1 > Len(t) THEN 0
    ELSE IF StartsWith(t, i, lit) THEN i
    ELSE Find(t, lit, i + 1)

\* the last position at or before i where character c is in t; 0 when none
RECURSIVE FindBack(_, _, _)
FindBack(t, c, i) ==
    IF i < 1 THEN 0
    ELSE IF t[i] = c THEN i
    ELSE FindBack(t, c, i - 1)

\* s.indexOf(c) and s.lastIndexOf(c), counted from 1; 0 when c is absent
IndexOf(t, c) == Find(t, <<c>>, 1)

LastIndexOf(t, c) == FindBack(t, c, Len(t))

\* s.split(c)[0]
SplitFirst(t, c) ==
    LET k == IndexOf(t, c)
    IN  IF k = 0 THEN t ELSE SubSeq(t, 1, k - 1)

\* s.split(c).pop()
SplitPop(t, c) == SubSeq(t, LastIndexOf(t, c) + 1, Len(t))

\* s.endsWith(lit)
EndsWith(t, lit) ==
    Len(t) >= Len(lit) /\ SubSeq(t, Len(t) - Len(lit) + 1, Len(t)) = lit

\* s.replace(lit, ''): the first occurrence only
RemoveFirst(t, lit) ==
    LET k == Find(t, lit, 1)
    IN  IF k = 0 THEN t
        ELSE SubSeq(t, 1, k - 1) \o SubSeq(t, k + Len(lit), Len(t))

SvgSuffix == <<".", "s", "v", "g">>
MthdSuffix == <<".", "m", "t", "h", "d">>
ImagesSuffix == <<"_", "_", "_", "i", "m", "a", "g", "e", "s">>
Untitled == <<"u", "n", "t", "i", "t", "l", "e", "d">>
MarkdownPrefix == <<"!", "[", "D", "r", "a", "w", "i", "n", "g", "]", "(">>
QuerySuffix == <<"?", "t", "=">>

\* encodeURI, on the characters of this model: a space and a percent sign are
\* escaped; letters, digits and . _ / ? ( ) are left as they are
\* (a text with neither is returned whole)
RECURSIVE encodeURI(_)
encodeURI(t) ==
    IF \A k \in 1..Len(t) : t[k] # " " /\ t[k] # "%" THEN t
    ELSE IF Len(t) = 1
    THEN IF t[1] = " " THEN <<"%", "2", "0">>
         ELSE IF t[1] = "%" THEN <<"%", "2", "5">>
         ELSE t
    ELSE LET h == Len(t) \div 2
         IN  encodeURI(SubSeq(t, 1, h)) \o encodeURI(SubSeq(t, h + 1, Len(t)))

\* position k of t starts an escape decodeURI knows
IsEscape(t, k) ==
    /\ k >= 1
    /\ t[k] = "%"
    /\ StartsWith(t, k, <<"%", "2", "0">>) \/ StartsWith(t, k, <<"%", "2", "5">>)

\* what decodeURI makes of position k of t
Unescaped(t, k) ==
    IF t[k] = "%" /\ StartsWith(t, k, <<"%", "2", "0">>) THEN <<" ">>
    ELSE IF t[k] = "%" /\ StartsWith(t, k, <<"%", "2", "5">>) THEN <<"%">>
    ELSE IF IsEscape(t, k - 1) \/ IsEscape(t, k - 2) THEN <<>>
    ELSE <<t[k]>>

RECURSIVE UnescapedRange(_, _, _)
UnescapedRange(t, lo, hi) ==
    IF lo > hi THEN <<>>
    ELSE IF /\ \A k \in lo..hi : t[k] # "%"
            /\ ~ IsEscape(t, lo - 1) /\ ~ IsEscape(t, lo - 2)
    THEN SubSeq(t, lo, hi)
    ELSE IF lo = hi THEN Unescaped(t, lo)
    ELSE LET mid == (lo + hi) \div 2
         IN  UnescapedRange(t, lo, mid) \o UnescapedRange(t, mid + 1, hi)

decodeURI(t) == UnescapedRange(t, 1, Len(t))

\* md.match(/!\[.*?\]\((.*?)\)/)[1]: the text between the first "](" after
\* the first "![" and the first ")" after it; empty when there is no match
RefMatch(md) ==
    LET a == Find(md, <<"!", "[">>, 1)
        b == IF a = 0 THEN 0 ELSE Find(md, <<"]", "(">>, a + 2)
        c == IF b = 0 THEN 0 ELSE Find(md, <<")">>, b + 2)
    IN  IF c = 0 THEN <<>> ELSE SubSeq(md, b + 2, c - 1)

\* decodeURI(match[1]).split('?')[0] || ''
RefPath(md) == SplitFirst(decodeURI(RefMatch(md)), "?")

\* drawing_${timestamp}.svg
DrawingName(timestamp) ==
    <<"d", "r", "a", "w", "i", "n", "g", "_">> \o NatText(timestamp) \o SvgSuffix

\* The file name save() writes: the last segment of the current reference
\* when it ends with .svg, else a fresh name from the timestamp
saveFileName(md, timestamp) ==
    Only({ Only({ IF match # <<>> /\ existingName # <<>>
                     /\ EndsWith(existingName, SvgSuffix)
                  THEN existingName
                  ELSE DrawingName(timestamp)
                  : existingName \in
                      { IF match = <<>> THEN <<>>
                        ELSE SplitPop(SplitFirst(decodeURI(match), "?"), "/") } })
           : match \in {RefMatch(md)} })

\* currentPath.substring(0, currentPath.lastIndexOf('/'))
fileDir(path) == SubSeq(path, 1, LastIndexOf(path, "/") - 1)

\* currentPath.split('/').pop()?.replace('.mthd', '') || 'untitled'
currentFileName(path) ==
    LET n == RemoveFirst(SplitPop(path, "/"), MthdSuffix)
    IN  IF n = <<>> THEN Untitled ELSE n

imagesDirName(path) == currentFileName(path) \o ImagesSuffix

\* fileDir ? `${fileDir}/${rel}` : rel
UnderDir(dir, rel) == IF dir # <<>> THEN dir \o <<"/">> \o rel ELSE rel

\* the storage path save() writes filename to
saveTargetPath(path, filename) ==
    UnderDir(fileDir(path), imagesDirName(path) \o <<"/">> \o filename)

\* `![Drawing](${encodeURI(`${imagesDirName}/${filename}`)}?t=${timestamp})`
savedMarkdown(path, filename, timestamp) ==
    MarkdownPrefix \o encodeURI(imagesDirName(path) \o <<"/">> \o filename)
        \o QuerySuffix \o NatText(timestamp) \o <<")">>

\* the storage path loadFromMarkdown reads for the reference md
loadTargetPath(md, path) == UnderDir(fileDir(path), RefPath(md))

\* the storage path the block's reference resolves to
Referenced == loadTargetPath(markdown, currentFilePath)

\* the document of the editor's session
DocumentPath == <<"n", ".", "m", "t", "h", "d">>

-----------------------------------------------------------------------------
(* The handlers.  B is the record of bounds the environment is held to:    *)
(* the virtual points the pointer is over when it goes down (downPts) and  *)
(* when it moves (movePts), the device points of wheel events, and caps on *)
(* the lengths and counters that would grow for ever.                      *)

Origin == IPt(0, 0)

\* |pt.x| <= n and |pt.y| <= n
InBox(pt, n) ==
    /\ ~ RLt(Num(n), pt.x) /\ ~ RLt(pt.x, Num(-n))
    /\ ~ RLt(Num(n), pt.y) /\ ~ RLt(pt.y, Num(-n))

\* |sc - 1| <= n / 10: sc is at most n zoom steps away from the initial scale
InSpan(sc, n) ==
    /\ ~ RLt(RAdd(Num(1), Norm(n, 10)), sc)
    /\ ~ RLt(sc, RSub(Num(1), Norm(n, 10)))

\* what lastOp records of a handler run: its name, the point it acted at and
\* the number of strokes it dropped (from redoStack or from strokes)
Op(name) == [name |-> name, at |-> Origin, n |-> 0]
OpAt(name, at) == [name |-> name, at |-> at, n |-> 0]
OpN(name, at, n) == [name |-> name, at |-> at, n |-> n]

InitialSurface ==
    /\ strokes = <<>>
    /\ redoStack = <<>>
    /\ currentStroke = <<>>
    /\ isDrawing = FALSE
    /\ isPanning = FALSE
    /\ scale = Num(1)
    /\ offset = Pt(Zero, Zero)
    /\ lastPan = Pt(Zero, Zero)
    /\ isSpacePressed = FALSE
    /\ currentTool = "pencil"
    /\ background = NoBackground

\* onMounted: loadFromMarkdown runs up to its first await when the block has
\* a reference (and the document is on disk)
LoadsAtMount(md, onDisk, path) ==
    IF RefMatch(md) # <<>> /\ onDisk THEN <<loadTargetPath(md, path)>> ELSE <<>>

\* The state after construction, for a block the host created empty
\* (addNextHandwrittenBlock) or converted from a text block of size w x h
\* (convertBlockToHandwriting, which requires the document to be on disk).
InitB(B) ==
    /\ InitialSurface
    /\ rect \in B.rects
    /\ currentFilePath = DocumentPath
    /\ \/ /\ markdown = NoRef
          /\ assets = <<>>
          /\ docOnDisk \in B.onDisk
       \/ /\ markdown = savedMarkdown(currentFilePath, DrawingName(0), 0)
          /\ \E size \in B.blockSizes :
                assets = <<[name |-> saveTargetPath(currentFilePath, DrawingName(0)),
                            content |-> ConvertedArtifact(size[1], size[2])]>>
          /\ docOnDisk = TRUE
    /\ pendingSave = <<>>
    /\ pendingLoad = LoadsAtMount(markdown, docOnDisk, currentFilePath)
    /\ emitted = ""
    /\ notified = ""
    /\ peers = <<>>
    /\ lastOp = Op("mount")
    /\ clock = 0

\* the storage: a list of files, at most one per name
HasFile(fs, name) == \E i \in 1 .. Len(fs) : fs[i].name = name
FileContent(fs, name) == fs[CHOOSE i \in 1 .. Len(fs) : fs[i].name = name].content
\* a writer that never overwrites a file
WriteFileOnce(fs, name, content) ==
    IF \E i \in 1 .. Len(fs) : fs[i].name = name
    THEN fs
    ELSE Append(fs, [name |-> name, content |-> content])

WriteFile(fs, name, content) ==
    IF HasFile(fs, name)
    THEN [i \in 1 .. Len(fs) |->
            IF fs[i].name = name THEN [name |-> name, content |-> content] ELSE fs[i]]
    ELSE Append(fs, [name |-> name, content |-> content])

\* a pointer-down that leaves the redo stack alone
clearRedoNever(rd) == rd

\* "Clear redo stack on new action" in startDrawing
clearRedo(rd) == IF Len(rd) > 0 THEN <<>> ELSE rd

\* startDrawing: mousedown (button left, middle or right) or touchstart at
\* device point c
StartDrawing(B, button, c) ==
        /\ emitted' = ""
        /\ notified' = ""
        /\ UNCHANGED peers
        /\ IF button = "middle" \/ isSpacePressed
           THEN /\ isPanning' = TRUE
                /\ lastPan' = c
                /\ lastOp' = Op("startPan")
                /\ UNCHANGED <<strokes, redoStack, currentStroke, isDrawing>>
           ELSE \* any other button than the left one returns early
                /\ button # "right"
                \* (bound) a gesture that may commit a stroke needs room for it
                /\ currentTool = "pencil" => Len(strokes) < B.maxStrokes
                /\ redoStack' = clearRedo(redoStack)
                /\ isDrawing' = TRUE
                /\ currentStroke' = <<toVirtual(c.x, c.y)>>
                /\ lastOp' = OpN("startDraw", Origin, Len(redoStack))
                /\ UNCHANGED <<strokes, isPanning, lastPan>>
        /\ UNCHANGED <<scale, offset, isSpacePressed, currentTool, background, rect,
                       markdown, assets, pendingSave, pendingLoad, docOnDisk, currentFilePath, clock>>

\* moveDrawing: mousemove or touchmove at device point c
MoveDrawing(B, c) ==
    LET p == toVirtual(c.x, c.y)
        panned == Pt(RAdd(offset.x, RSub(c.x, lastPan.x)),
                     RAdd(offset.y, RSub(c.y, lastPan.y)))
    IN  /\ emitted' = ""
        /\ notified' = ""
        /\ UNCHANGED peers
        /\ IF isPanning
           THEN /\ InBox(panned, B.maxOffset)
                /\ offset' = panned
                /\ lastPan' = c
                /\ lastOp' = Op("pan")
                /\ UNCHANGED <<strokes, currentStroke>>
           ELSE \* nothing is captured or erased unless a gesture is active
                /\ isDrawing
                /\ IF currentTool = "eraser"
                   THEN /\ strokes' = eraseAt(strokes, p, scale)
                        /\ lastOp' = OpN("erase", p, Len(strokes) - Len(strokes'))
                        /\ UNCHANGED <<currentStroke, offset, lastPan>>
                   ELSE /\ Len(currentStroke) < B.maxPts
                        /\ currentStroke' = Append(currentStroke, p)
                        /\ lastOp' = Op("capture")
                        /\ UNCHANGED <<strokes, offset, lastPan>>
        /\ UNCHANGED <<redoStack, isDrawing, isPanning, scale, isSpacePressed,
                       currentTool, background, rect, markdown, assets, pendingSave,
                       pendingLoad, docOnDisk, currentFilePath, clock>>

\* stopDrawing: mouseup, mouseleave or touchend
StopDrawing(B) ==
    /\ emitted' = ""
    /\ notified' = ""
    /\ UNCHANGED peers
    /\ IF isPanning
       THEN /\ isPanning' = FALSE
            /\ lastOp' = Op("stopPan")
            /\ UNCHANGED <<strokes, currentStroke, isDrawing>>
       ELSE \* returns early when no gesture is active
            /\ isDrawing
            \* (bound) the committed and the undone strokes together stay
            \* within the cap: undo during a gesture moves strokes aside
            /\ (currentTool = "pencil" /\ Len(currentStroke) > 0)
                  => Len(strokes) + Len(redoStack) < B.maxStrokes
            /\ isDrawing' = FALSE
            /\ strokes' = IF currentTool = "pencil" /\ Len(currentStroke) > 0
                          THEN Append(strokes, smoothStroke(currentStroke))
                          ELSE strokes
            /\ currentStroke' = <<>>
            /\ lastOp' = Op("stopDraw")
            /\ UNCHANGED isPanning
    /\ UNCHANGED <<redoStack, scale, offset, lastPan, isSpacePressed, currentTool,
                   background, rect, markdown, assets, pendingSave, pendingLoad,
                   docOnDisk, currentFilePath, clock>>

\* handleKeydown run on the refs s of one mounted block
handleKeydownOn(s, key) ==
    [s EXCEPT !.isSpacePressed = IF key = "Space" THEN TRUE ELSE @,
              !.strokes = IF key = "undo" THEN undo(s.strokes, s.redoStack)[1]
                          ELSE IF key = "redo" THEN redo(s.strokes, s.redoStack)[1]
                          ELSE @,
              !.redoStack = IF key = "undo" THEN undo(s.strokes, s.redoStack)[2]
                            ELSE IF key = "redo" THEN redo(s.strokes, s.redoStack)[2]
                            ELSE @]

\* handleKeyup of Space run on the refs s of one mounted block
handleKeyupOn(s) == [s EXCEPT !.isSpacePressed = FALSE]

\* A keydown on the window: Space, ctrl/meta+Z (undo) or ctrl/meta+shift+Z
\* (redo).  Every mounted block added its handleKeydown to the window in
\* onMounted, so the event runs the handler of each of them.
HandleKeydown(key) ==
    /\ emitted' = ""
    /\ notified' = ""
    /\ peers' = [i \in DOMAIN peers |-> handleKeydownOn(peers[i], key)]
    /\ lastOp' = Op(key)
    /\ isSpacePressed' = IF key = "Space" THEN TRUE ELSE isSpacePressed
    /\ strokes' = IF key = "undo" THEN undo(strokes, redoStack)[1]
                  ELSE IF key = "redo" THEN redo(strokes, redoStack)[1]
                  ELSE strokes
    /\ redoStack' = IF key = "undo" THEN undo(strokes, redoStack)[2]
                    ELSE IF key = "redo" THEN redo(strokes, redoStack)[2]
                    ELSE redoStack
    /\ UNCHANGED <<currentStroke, isDrawing, isPanning, scale, offset, lastPan,
                   currentTool, background, rect, markdown, assets, pendingSave,
                   pendingLoad, docOnDisk, currentFilePath, clock>>

\* A keyup of Space on the window: handleKeyup of every mounted block
HandleKeyup ==
    /\ emitted' = ""
    /\ notified' = ""
    /\ peers' = [i \in DOMAIN peers |-> handleKeyupOn(peers[i])]
    /\ lastOp' = Op("SpaceUp")
    /\ isSpacePressed' = FALSE
    /\ UNCHANGED <<strokes, redoStack, currentStroke, isDrawing, isPanning, scale,
                   offset, lastPan, currentTool, background, rect, markdown, assets,
                   pendingSave, pendingLoad, docOnDisk, currentFilePath, clock>>

\* the toolbar buttons: currentTool = 'pencil' / 'eraser'
SetTool(B, tool) ==
    \* (bound) a gesture that may commit a stroke needs room for it
    /\ (isDrawing /\ tool = "pencil") => Len(strokes) < B.maxStrokes
    /\ emitted' = ""
    /\ notified' = ""
    /\ UNCHANGED peers
    /\ lastOp' = Op("tool")
    /\ currentTool' = tool
    /\ UNCHANGED <<strokes, redoStack, currentStroke, isDrawing, isPanning, scale,
                   offset, lastPan, isSpacePressed, background, rect, markdown,
                   assets, pendingSave, pendingLoad, docOnDisk, currentFilePath, clock>>

\* handleWheel with ctrl/meta held, wheel delta deltaY, at device point m
HandleWheel(B, deltaY, m) ==
    LET z == handleWheelZoom(deltaY, m.x, m.y, rect, offset, scale)
    IN  /\ InSpan(z[1], B.zoomSpan)
        /\ emitted' = ""
        /\ notified' = ""
        /\ UNCHANGED peers
        /\ lastOp' = OpAt("wheel", m)
        /\ scale' = z[1]
        /\ offset' = z[2]
        /\ UNCHANGED <<strokes, redoStack, currentStroke, isDrawing, isPanning,
                       lastPan, isSpacePressed, currentTool, background, rect,
                       markdown, assets, pendingSave, pendingLoad, docOnDisk, currentFilePath, clock>>

\* save(): the Done button, or a mousedown outside the container.  It runs
\* to its await; the write is then pending.
SaveWith(B, svgContent) ==
    LET timestamp == clock + 1
        filename == saveFileName(markdown, timestamp)
    IN  /\ lastOp' = Op("save")
        /\ IF svgContent = NoArtifact
           THEN /\ emitted' = "cancel"
                /\ notified' = ""
                /\ UNCHANGED <<pendingSave, clock>>
           ELSE IF ~ docOnDisk
           THEN \* alert("Please save the file to disk first.")
                /\ emitted' = ""
                /\ notified' = "alert"
                /\ UNCHANGED <<pendingSave, clock>>
           ELSE /\ clock < B.maxSave
                /\ Len(pendingSave) < B.maxPending
                /\ emitted' = ""
                /\ notified' = ""
                /\ pendingSave' = Append(pendingSave,
                       [name |-> saveTargetPath(currentFilePath, filename),
                        file |-> filename,
                        content |-> svgContent, t |-> timestamp])
                /\ clock' = clock + 1
        /\ UNCHANGED <<surface, rect, markdown, assets, pendingLoad, docOnDisk, currentFilePath, peers>>

Save(B) == SaveWith(B, generateSvg(strokes, currentStroke, background))

\* save() of the version with a markup background
SaveMarkup(B) == SaveWith(B, generateSvgMarkup(strokes, currentStroke, background))

\* fileService.saveAsset resolved: the rest of save() runs
SaveDone ==
    /\ pendingSave # <<>>
    /\ LET w == Head(pendingSave)
       IN  /\ assets' = WriteFile(assets, w.name, w.content)
           /\ markdown' = savedMarkdown(currentFilePath, w.file, w.t)
    /\ pendingSave' = Tail(pendingSave)
    /\ emitted' = "save"
    /\ notified' = ""
    /\ UNCHANGED peers
    /\ lastOp' = Op("saveDone")
    /\ UNCHANGED <<surface, rect, pendingLoad, docOnDisk, currentFilePath, clock>>

\* a rejection path that still points the block at the file it failed to write
SaveRejectedAdvancing ==
    /\ pendingSave # <<>>
    /\ markdown' = savedMarkdown(currentFilePath, Head(pendingSave).file,
                                 Head(pendingSave).t)
    /\ pendingSave' = Tail(pendingSave)
    /\ emitted' = ""
    /\ notified' = "alert"
    /\ UNCHANGED peers
    /\ lastOp' = Op("saveRejected")
    /\ UNCHANGED <<surface, rect, assets, pendingLoad, docOnDisk, currentFilePath, clock>>

\* fileService.saveAsset rejected: the catch block of save() runs
SaveRejected ==
    /\ pendingSave # <<>>
    /\ pendingSave' = Tail(pendingSave)
    /\ emitted' = ""
    \* console.error and alert("Failed to save drawing.")
    /\ notified' = "alert"
    /\ UNCHANGED peers
    /\ lastOp' = Op("saveRejected")
    /\ UNCHANGED <<surface, rect, markdown, assets, pendingLoad, docOnDisk, currentFilePath, clock>>

\* the Cancel button: emit('cancel')
Cancel ==
    /\ emitted' = "cancel"
    /\ notified' = ""
    /\ UNCHANGED peers
    /\ lastOp' = Op("cancel")
    /\ UNCHANGED <<surface, rect, markdown, assets, pendingSave, pendingLoad,
                   docOnDisk, currentFilePath, clock>>

\* The host destroys the component and mounts a new one on the same block
\* (the document is reopened): fresh refs, then onMounted.
Mount ==
    /\ pendingSave = <<>> /\ pendingLoad = <<>>
    /\ strokes' = <<>>
    /\ redoStack' = <<>>
    /\ currentStroke' = <<>>
    /\ isDrawing' = FALSE
    /\ isPanning' = FALSE
    /\ scale' = Num(1)
    /\ offset' = Pt(Zero, Zero)
    /\ lastPan' = Pt(Zero, Zero)
    /\ isSpacePressed' = FALSE
    /\ currentTool' = "pencil"
    /\ background' = NoBackground
    /\ pendingLoad' = LoadsAtMount(markdown, docOnDisk, currentFilePath)
    /\ emitted' = ""
    /\ notified' = ""
    /\ UNCHANGED peers
    /\ lastOp' = Op("mount")
    /\ UNCHANGED <<rect, markdown, assets, pendingSave, docOnDisk, currentFilePath, clock>>

\* the awaits of loadFromMarkdown resolved with the stored artifact: its
\* synchronous tail runs (a missing file rejects: see LoadRejected)
LoadDone ==
    /\ pendingLoad # <<>>
    /\ HasFile(assets, Head(pendingLoad))
    /\ \E r \in {loadParsed(FileContent(assets, Head(pendingLoad)), strokes, background)} :
           /\ strokes' = r[1]
           /\ background' = r[2]
           \* the catch block logs what the try block threw
           /\ notified' = IF r[3] THEN "log" ELSE ""
    /\ pendingLoad' = Tail(pendingLoad)
    /\ emitted' = ""
    /\ UNCHANGED peers
    /\ lastOp' = Op("loadDone")
    /\ UNCHANGED <<redoStack, currentStroke, isDrawing, isPanning, scale, offset,
                   lastPan, isSpacePressed, currentTool, rect, markdown, assets,
                   pendingSave, docOnDisk, currentFilePath, clock>>

\* the tail of loadFromMarkdown in the version with a markup background
LoadDoneMarkup ==
    /\ pendingLoad # <<>>
    /\ HasFile(assets, Head(pendingLoad))
    /\ \E r \in {loadParsedMarkup(FileContent(assets, Head(pendingLoad)), strokes, background)} :
           /\ strokes' = r[1]
           /\ background' = r[2]
           /\ notified' = IF r[3] THEN "log" ELSE ""
    /\ pendingLoad' = Tail(pendingLoad)
    /\ emitted' = ""
    /\ UNCHANGED peers
    /\ lastOp' = Op("loadDone")
    /\ UNCHANGED <<redoStack, currentStroke, isDrawing, isPanning, scale, offset,
                   lastPan, isSpacePressed, currentTool, rect, markdown, assets,
                   pendingSave, docOnDisk, currentFilePath, clock>>

\* getFileHandleByPath / getFile / text rejected: the catch block logs
LoadRejected ==
    /\ pendingLoad # <<>>
    /\ pendingLoad' = Tail(pendingLoad)
    /\ emitted' = ""
    \* console.error("Failed to load existing drawing strokes", e)
    /\ notified' = "log"
    /\ UNCHANGED peers
    /\ lastOp' = Op("loadRejected")
    /\ UNCHANGED <<surface, rect, markdown, assets, pendingSave, docOnDisk, currentFilePath, clock>>

WheelDeltas == {Num(-1), Zero, Num(1)}

\* The pointer goes down over virtual point v and moves to over virtual
\* point v; while the view is being dragged it moves by v (in virtual units)
PointerStep(B) ==
    \/ \E button \in B.buttons, v \in B.downPts :
          StartDrawing(B, button, ClientOver(v))
    \/ \E v \in B.movePts :
          MoveDrawing(B, IF isPanning THEN DraggedBy(v) ELSE ClientOver(v))
    \/ StopDrawing(B)

KeyStep(B) == \E key \in B.keys : HandleKeydown(key)

ToolStep(B) == \E tool \in {"pencil", "eraser"} : SetTool(B, tool)

WheelStep(B) == \E deltaY \in WheelDeltas, m \in B.wheelPts : HandleWheel(B, deltaY, m)

StorageStep(B) ==
    \/ Save(B)
    \/ SaveDone
    \/ SaveRejected
    \/ Cancel
    \/ Mount
    \/ LoadDone
    \/ LoadRejected

-----------------------------------------------------------------------------
(* Bounds and specifications *)

MaxStrokes == 2
MaxPts == 2
ZoomSpan == 1
MaxOffset == 12
MaxSave == 1
MaxPending == 1
\* The ink machine: draw and erase gestures, undo/redo, tools, a few zoom steps
InkBounds ==
    [downPts |-> {IPt(0, 0)},
     movePts |-> {IPt(12, 0), IPt(6, 10)},
     buttons |-> {"left", "right"},
     keys |-> {"undo", "redo"},
     wheelPts |-> {IPt(8, 16)},
     rects |-> {[left |-> Num(8), top |-> Num(16)]},
     onDisk |-> {TRUE},
     blockSizes |-> {},
     maxStrokes |-> MaxStrokes, maxPts |-> MaxPts, zoomSpan |-> ZoomSpan,
     maxOffset |-> MaxOffset, maxSave |-> MaxSave, maxPending |-> MaxPending]

InitInk == InitB(InkBounds)
NextInk == PointerStep(InkBounds) \/ KeyStep(InkBounds) \/ ToolStep(InkBounds)
           \/ WheelStep(InkBounds)
SpecInk == InitInk /\ [][NextInk]_vars

\* The simplifier machine: a gesture whose buffer is any sequence of 1 to
\* MaxLen of six points (collinear runs, repeated points and a point less
\* than the tolerance away from a chord among them), about to be committed
MaxLen == 4
SimplifyPts ==
    {IPt(0, 0), IPt(1, 0), IPt(2, 0), IPt(3, 0), IPt(3, 1), IPt(1, 1), IPt(5, 0), IPt(10, 0)}

SimplifyBounds ==
    [downPts |-> SimplifyPts,
     movePts |-> SimplifyPts,
     buttons |-> {"left"},
     keys |-> {},
     wheelPts |-> {},
     rects |-> {[left |-> Num(8), top |-> Num(16)]},
     onDisk |-> {TRUE},
     blockSizes |-> {},
     maxStrokes |-> MaxStrokes, maxPts |-> MaxLen, zoomSpan |-> ZoomSpan,
     maxOffset |-> MaxOffset, maxSave |-> MaxSave, maxPending |-> MaxPending]

\* the surface in the middle of a pencil gesture that captured the points
\* of buffer
MidGesture(buffer) ==
    /\ strokes = <<>>
    /\ redoStack = <<>>
    /\ currentStroke = buffer
    /\ isDrawing = TRUE
    /\ isPanning = FALSE
    /\ scale = Num(1)
    /\ offset = Pt(Zero, Zero)
    /\ lastPan = Pt(Zero, Zero)
    /\ isSpacePressed = FALSE
    /\ currentTool = "pencil"
    /\ background = NoBackground
    /\ lastOp = IF Len(buffer) = 1 THEN Op("startDraw") ELSE Op("capture")

InitSimplify ==
    /\ \E n \in 1 .. MaxLen : \E buffer \in [1 .. n -> SimplifyPts] : MidGesture(buffer)
    /\ rect \in SimplifyBounds.rects
    /\ markdown = NoRef
    /\ assets = <<>>
    /\ docOnDisk = TRUE
    /\ currentFilePath = DocumentPath
    /\ pendingSave = <<>>
    /\ pendingLoad = <<>>
    /\ emitted = ""
    /\ notified = ""
    /\ peers = <<>>
    /\ clock = 0
NextSimplify ==
    \/ \E v \in SimplifyBounds.movePts : MoveDrawing(SimplifyBounds, ClientOver(v))
    \/ StopDrawing(SimplifyBounds)
SpecSimplify == InitSimplify /\ [][NextSimplify]_vars

\* The zoom machine: the wheel turned at one device point over the whole
\* range of scales, on a canvas at two positions, with a short stroke
ZoomRange == 40
ZoomStrokes == 1
ZoomPts == 2
ZoomBounds ==
    [downPts |-> {IPt(0, 0)},
     movePts |-> {IPt(6, 0)},
     buttons |-> {"left"},
     keys |-> {},
     wheelPts |-> {IPt(14, 16)},
     rects |-> {[left |-> Num(8), top |-> Num(16)], [left |-> Zero, top |-> Zero]},
     onDisk |-> {TRUE},
     blockSizes |-> {},
     maxStrokes |-> ZoomStrokes, maxPts |-> ZoomPts, zoomSpan |-> ZoomRange,
     maxOffset |-> MaxOffset, maxSave |-> MaxSave, maxPending |-> MaxPending]

InitZoom == InitB(ZoomBounds)
NextZoom == PointerStep(ZoomBounds) \/ WheelStep(ZoomBounds)
SpecZoom == InitZoom /\ [][NextZoom]_vars

\* The view machine: pan with the middle button or Space, a few zoom steps,
\* one short stroke, two canvas positions
ViewStrokes == 1
ViewPts == 2
ViewOffset == 6
ViewBounds ==
    [downPts |-> {IPt(0, 0)},
     movePts |-> {IPt(6, -6)},
     buttons |-> {"left", "middle"},
     keys |-> {"Space", "undo"},
     wheelPts |-> {IPt(14, 16)},
     rects |-> {[left |-> Num(8), top |-> Num(16)], [left |-> Zero, top |-> Zero]},
     onDisk |-> {TRUE},
     blockSizes |-> {},
     maxStrokes |-> ViewStrokes, maxPts |-> ViewPts, zoomSpan |-> ZoomSpan,
     maxOffset |-> ViewOffset, maxSave |-> MaxSave, maxPending |-> MaxPending]

InitView == InitB(ViewBounds)
NextView == PointerStep(ViewBounds) \/ KeyStep(ViewBounds) \/ HandleKeyup
            \/ WheelStep(ViewBounds)
SpecView == InitView /\ [][NextView]_vars

\* The codec machine: a block the host created empty or converted from a
\* text block, a little ink with fractional and negative coordinates, and
\* save / reopen / load
CodecStrokes == 1
CodecPts == 2
BlockWidth == 40
BlockHeight == 30
CodecBounds ==
    [downPts |-> {Pt(<<1, 2>>, Num(-3))},
     movePts |-> {Pt(<<-5, 4>>, Num(7))},
     buttons |-> {"left"},
     keys |-> {},
     wheelPts |-> {},
     rects |-> {[left |-> Num(8), top |-> Num(16)]},
     onDisk |-> {TRUE, FALSE},
     blockSizes |-> {<<Num(BlockWidth), Num(BlockHeight)>>},
     maxStrokes |-> CodecStrokes, maxPts |-> CodecPts, zoomSpan |-> ZoomSpan,
     maxOffset |-> MaxOffset, maxSave |-> MaxSave, maxPending |-> MaxPending]

InitCodec == InitB(CodecBounds)
NextCodec == PointerStep(CodecBounds) \/ StorageStep(CodecBounds)
SpecCodec == InitCodec /\ [][NextCodec]_vars

\* The load machine: a block without a reference, or one that refers to a
\* file found on disk (a converted block, a saved drawing, and files whose
\* description is missing, cut short, or the JSON literal null); tap
\* gestures, undo, save, reopen, and loads that resolve or are rejected.
LoadStrokes == 2
LoadPts == 1
LoadSaves == 1
LoadBounds ==
    [downPts |-> {IPt(0, 0)},
     movePts |-> {},
     buttons |-> {"left"},
     keys |-> {"undo"},
     wheelPts |-> {},
     rects |-> {[left |-> Num(8), top |-> Num(16)]},
     onDisk |-> {TRUE},
     blockSizes |-> {<<Num(BlockWidth), Num(BlockHeight)>>},
     maxStrokes |-> LoadStrokes, maxPts |-> LoadPts, zoomSpan |-> ZoomSpan,
     maxOffset |-> MaxOffset, maxSave |-> LoadSaves, maxPending |-> MaxPending]

\* the drawing a previous session saved
SavedDrawing == generateSvg(<<<<IPt(0, 0), IPt(4, 0)>>>>, <<>>, NoBackground)

\* what file.text() may hold when the block is opened
LoadArtifacts ==
    { ConvertedArtifact(size[1], size[2]) : size \in LoadBounds.blockSizes }
    \cup { SavedDrawing,
           [SavedDrawing EXCEPT !.desc = <<>>],
           [SavedDrawing EXCEPT !.desc = <<"[", "[", "{">>],
           [SavedDrawing EXCEPT !.desc = LiteralText("null")] }

\* The state after construction of a block without a reference, or of one
\* whose reference names a stored file holding one of arts
InitFrom(B, arts) ==
    /\ InitialSurface
    /\ rect \in B.rects
    /\ docOnDisk = TRUE
    /\ currentFilePath = DocumentPath
    /\ \/ /\ markdown = NoRef
          /\ assets = <<>>
       \/ /\ markdown = savedMarkdown(currentFilePath, DrawingName(0), 0)
          /\ \E art \in arts :
                assets = <<[name |-> saveTargetPath(currentFilePath, DrawingName(0)),
                            content |-> art]>>
    /\ pendingSave = <<>>
    /\ pendingLoad = LoadsAtMount(markdown, docOnDisk, currentFilePath)
    /\ emitted = ""
    /\ notified = ""
    /\ peers = <<>>
    /\ lastOp = Op("mount")
    /\ clock = 0

InitLoad == InitFrom(LoadBounds, LoadArtifacts)

\* The handlers when strokes.value is not an array: the first use of it as
\* one throws a TypeError, which leaves the handler; notified records it.
\* startDrawing assigns its refs and throws in drawAll (for ... of)
StartDrawingThrows(B, c) ==
    /\ ~ isSpacePressed
    /\ redoStack' = clearRedo(redoStack)
    /\ isDrawing' = TRUE
    /\ currentStroke' = <<toVirtual(c.x, c.y)>>
    /\ lastOp' = OpN("startDraw", Origin, Len(redoStack))
    /\ emitted' = ""
    /\ notified' = "throw"
    /\ UNCHANGED <<strokes, isPanning, lastPan, scale, offset, isSpacePressed,
                   currentTool, background, rect, markdown, assets, pendingSave,
                   pendingLoad, docOnDisk, currentFilePath, clock, peers>>

\* stopDrawing throws at strokes.value.push, before currentStroke is emptied
StopDrawingThrows ==
    /\ ~ isPanning
    /\ isDrawing
    /\ currentTool = "pencil" /\ Len(currentStroke) > 0
    /\ isDrawing' = FALSE
    /\ lastOp' = Op("stopDraw")
    /\ emitted' = ""
    /\ notified' = "throw"
    /\ UNCHANGED <<strokes, redoStack, currentStroke, isPanning, lastPan, scale,
                   offset, isSpacePressed, currentTool, background, rect, markdown,
                   assets, pendingSave, pendingLoad, docOnDisk, currentFilePath, clock, peers>>

\* undo throws at strokes.value.length (null) or strokes.value.pop (true, false)
UndoThrows ==
    /\ lastOp' = Op("undo")
    /\ emitted' = ""
    /\ notified' = "throw"
    /\ UNCHANGED <<surface, rect, markdown, assets, pendingSave, pendingLoad,
                   docOnDisk, currentFilePath, clock, peers>>

\* save throws in generateSvg, before its try block
SaveThrows ==
    /\ lastOp' = Op("save")
    /\ emitted' = ""
    /\ notified' = "throw"
    /\ UNCHANGED <<surface, rect, markdown, assets, pendingSave, pendingLoad,
                   docOnDisk, currentFilePath, clock, peers>>

NextLoad ==
    \/ /\ IsArray(strokes)
       /\ \/ \E v \in LoadBounds.downPts : StartDrawing(LoadBounds, "left", ClientOver(v))
          \/ StopDrawing(LoadBounds)
          \/ KeyStep(LoadBounds)
          \/ Save(LoadBounds)
    \/ /\ ~ IsArray(strokes)
       /\ \/ \E v \in LoadBounds.downPts : StartDrawingThrows(LoadBounds, ClientOver(v))
          \/ StopDrawingThrows
          \/ UndoThrows
          \/ SaveThrows
    \/ SaveDone
    \/ SaveRejected
    \/ Mount
    \/ LoadDone
    \/ LoadRejected
SpecLoad == InitLoad /\ [][NextLoad]_vars

\* The store machine: a block the host created empty, one converted from a
\* text block, or one that refers to a drawing saved earlier; draw gestures,
\* undo/redo, save (resolved or rejected) and load
StoreStrokes == 1
StorePts == 2
StoreBounds ==
    [downPts |-> {IPt(0, 0)},
     movePts |-> {IPt(4, 0)},
     buttons |-> {"left"},
     keys |-> {"undo", "redo"},
     wheelPts |-> {},
     rects |-> {[left |-> Num(8), top |-> Num(16)]},
     onDisk |-> {TRUE},
     blockSizes |-> {<<Num(BlockWidth), Num(BlockHeight)>>},
     maxStrokes |-> StoreStrokes, maxPts |-> StorePts, zoomSpan |-> ZoomSpan,
     maxOffset |-> MaxOffset, maxSave |-> MaxSave, maxPending |-> MaxPending]

StoreArtifacts ==
    { ConvertedArtifact(size[1], size[2]) : size \in StoreBounds.blockSizes }
    \cup { SavedDrawing }

InitStore == InitFrom(StoreBounds, StoreArtifacts)
NextStore == PointerStep(StoreBounds) \/ KeyStep(StoreBounds) \/ Save(StoreBounds)
             \/ SaveDone \/ SaveRejected \/ LoadDone
SpecStore == InitStore /\ [][NextStore]_vars

\* The retry machine: a block the host created empty; draw gestures, undo,
\* and saves whose write resolves or is rejected, the first and the later ones
RetryStrokes == 1
RetryPts == 2
RetrySaves == 2
RetryBounds ==
    [downPts |-> {IPt(0, 0)},
     movePts |-> {IPt(4, 0)},
     buttons |-> {"left"},
     keys |-> {"undo"},
     wheelPts |-> {},
     rects |-> {[left |-> Num(8), top |-> Num(16)]},
     onDisk |-> {TRUE},
     blockSizes |-> {},
     maxStrokes |-> RetryStrokes, maxPts |-> RetryPts, zoomSpan |-> ZoomSpan,
     maxOffset |-> MaxOffset, maxSave |-> RetrySaves, maxPending |-> MaxPending]

InitRetry == InitB(RetryBounds)
NextRetry == PointerStep(RetryBounds) \/ KeyStep(RetryBounds) \/ Save(RetryBounds)
             \/ SaveDone \/ SaveRejected
SpecRetry == InitRetry /\ [][NextRetry]_vars

\* The pair machine: two handwritten blocks mounted in one document, both
\* created empty.  The variables of the surface are the refs of the block
\* the pointer is over; peers holds the refs of the other one.  Pointer
\* positions are given relative to the canvas under the pointer.
PairStrokes == 1
PairPts == 2
PairBounds ==
    [downPts |-> {IPt(0, 0)},
     movePts |-> {IPt(4, 0)},
     buttons |-> {"left"},
     keys |-> {"undo", "redo", "Space"},
     wheelPts |-> {},
     rects |-> {[left |-> Num(8), top |-> Num(16)]},
     onDisk |-> {TRUE},
     blockSizes |-> {},
     maxStrokes |-> PairStrokes, maxPts |-> PairPts, zoomSpan |-> ZoomSpan,
     maxOffset |-> MaxOffset, maxSave |-> MaxSave, maxPending |-> MaxPending]

\* the refs of a block right after setup
InitialRefs ==
    [strokes |-> <<>>, redoStack |-> <<>>, currentStroke |-> <<>>,
     isDrawing |-> FALSE, isPanning |-> FALSE, scale |-> Num(1),
     offset |-> Pt(Zero, Zero), lastPan |-> Pt(Zero, Zero),
     isSpacePressed |-> FALSE, currentTool |-> "pencil",
     background |-> NoBackground]

InitPair ==
    /\ InitialSurface
    /\ peers = <<InitialRefs>>
    /\ rect \in PairBounds.rects
    /\ markdown = NoRef
    /\ assets = <<>>
    /\ docOnDisk \in PairBounds.onDisk
    /\ currentFilePath = DocumentPath
    /\ pendingSave = <<>>
    /\ pendingLoad = <<>>
    /\ emitted = ""
    /\ notified = ""
    /\ lastOp = Op("mount")
    /\ clock = 0

\* The pointer, up, leaves the canvas of one block and enters the canvas of
\* the other: from now on the canvas handlers that run are the other block's
SwitchSurface ==
    /\ ~ isDrawing /\ ~ isPanning
    /\ peers' = <<[strokes |-> strokes, redoStack |-> redoStack,
                   currentStroke |-> currentStroke, isDrawing |-> isDrawing,
                   isPanning |-> isPanning, scale |-> scale, offset |-> offset,
                   lastPan |-> lastPan, isSpacePressed |-> isSpacePressed,
                   currentTool |-> currentTool, background |-> background]>>
    /\ strokes' = peers[1].strokes
    /\ redoStack' = peers[1].redoStack
    /\ currentStroke' = peers[1].currentStroke
    /\ isDrawing' = peers[1].isDrawing
    /\ isPanning' = peers[1].isPanning
    /\ scale' = peers[1].scale
    /\ offset' = peers[1].offset
    /\ lastPan' = peers[1].lastPan
    /\ isSpacePressed' = peers[1].isSpacePressed
    /\ currentTool' = peers[1].currentTool
    /\ background' = peers[1].background
    /\ emitted' = ""
    /\ notified' = ""
    /\ lastOp' = Op("switch")
    /\ UNCHANGED <<rect, markdown, assets, pendingSave, pendingLoad, docOnDisk, currentFilePath, clock>>

NextPair == PointerStep(PairBounds) \/ KeyStep(PairBounds) \/ HandleKeyup
            \/ SwitchSurface
SpecPair == InitPair /\ [][NextPair]_vars

\* The block in documents of several names: what the reference written by
\* save() resolves to when the document is opened again.
PathStrokes == 1
PathPts == 1
PathSaves == 2

PathBounds ==
    [downPts |-> {IPt(0, 0)},
     movePts |-> {},
     buttons |-> {"left"},
     keys |-> {},
     wheelPts |-> {},
     rects |-> {[left |-> Num(8), top |-> Num(16)]},
     onDisk |-> {TRUE},
     blockSizes |-> {<<Num(BlockWidth), Num(BlockHeight)>>},
     maxStrokes |-> PathStrokes, maxPts |-> PathPts, zoomSpan |-> ZoomSpan,
     maxOffset |-> MaxOffset, maxSave |-> PathSaves, maxPending |-> MaxPending]

\* props.currentFilePath: the documents the block is edited in
DocumentPaths ==
    { DocumentPath,
      <<"d", "/">> \o DocumentPath,
      <<"a", " ", "b">> \o MthdSuffix,
      <<"5", "%">> \o MthdSuffix,
      <<"n">>,
      MthdSuffix,
      <<"n", "(", "1", ")">> \o MthdSuffix,
      <<"a", "?">> \o MthdSuffix }

\* The state after construction in a document of DocumentPaths, of a block
\* the host created empty or converted from a text block
InitPath ==
    /\ InitialSurface
    /\ rect \in PathBounds.rects
    /\ docOnDisk = TRUE
    /\ currentFilePath \in DocumentPaths
    /\ \/ /\ markdown = NoRef
          /\ assets = <<>>
       \/ /\ markdown = savedMarkdown(currentFilePath, DrawingName(0), 0)
          /\ \E size \in PathBounds.blockSizes :
                assets = <<[name |-> saveTargetPath(currentFilePath, DrawingName(0)),
                            content |-> ConvertedArtifact(size[1], size[2])]>>
    /\ pendingSave = <<>>
    /\ pendingLoad = LoadsAtMount(markdown, docOnDisk, currentFilePath)
    /\ emitted = ""
    /\ notified = ""
    /\ peers = <<>>
    /\ lastOp = Op("mount")
    /\ clock = 0

NextPath ==
    \/ \E v \in PathBounds.downPts : StartDrawing(PathBounds, "left", ClientOver(v))
    \/ StopDrawing(PathBounds)
    \/ Save(PathBounds)
    \/ SaveDone
    \/ SaveRejected
    \/ Mount
    \/ LoadDone
    \/ LoadRejected
SpecPath == InitPath /\ [][NextPath]_vars

\* The version with a markup background: a block whose stored artifact
\* carries a foreignObject and no strokes is opened, drawn on and saved.
MarkupStrokes == 2
MarkupPts == 2

MarkupBounds ==
    [downPts |-> {IPt(30, 40), IPt(20, 20)},
     movePts |-> {IPt(34, 43)},
     buttons |-> {"left"},
     keys |-> {},
     wheelPts |-> {},
     rects |-> {[left |-> Num(8), top |-> Num(16)]},
     onDisk |-> {TRUE},
     blockSizes |-> {},
     maxStrokes |-> MarkupStrokes, maxPts |-> MarkupPts, zoomSpan |-> ZoomSpan,
     maxOffset |-> MaxOffset, maxSave |-> MaxSave, maxPending |-> MaxPending]

\* the artifact of a block with a markup background and no ink
MarkupArtifact ==
    [width |-> Num(BlockWidth), height |-> Num(BlockHeight),
     image |-> [href |-> "<p>text</p>", x |-> Zero, y |-> Zero,
                width |-> FullSize, height |-> FullSize],
     desc |-> <<"[", "]">>,
     path |-> <<>>]

InitMarkup == InitFrom(MarkupBounds, {MarkupArtifact})
NextMarkup ==
    \/ PointerStep(MarkupBounds)
    \/ SaveMarkup(MarkupBounds)
    \/ SaveDone
    \/ SaveRejected
    \/ LoadDoneMarkup
    \/ LoadRejected
SpecMarkup == InitMarkup /\ [][NextMarkup]_vars

\* Blocks whose stored artifact carries an image with its size, with a zero
\* size, or with no size attributes: what save() makes of each.
BoxStrokes == 1
BoxPts == 2

BoxBounds ==
    [downPts |-> {IPt(0, 0)},
     movePts |-> {IPt(50, 3)},
     buttons |-> {"left"},
     keys |-> {"undo"},
     wheelPts |-> {},
     rects |-> {[left |-> Num(8), top |-> Num(16)]},
     onDisk |-> {TRUE},
     blockSizes |-> {<<Num(BlockWidth), Num(BlockHeight)>>},
     maxStrokes |-> BoxStrokes, maxPts |-> BoxPts, zoomSpan |-> ZoomSpan,
     maxOffset |-> MaxOffset, maxSave |-> MaxSave, maxPending |-> MaxPending]

\* <image href=... /> without width and height, and with width="0" height="0"
BoxArtifacts ==
    LET sized == ConvertedArtifact(Num(BlockWidth), Num(BlockHeight))
    IN  { sized,
          [sized EXCEPT !.image.width = <<>>, !.image.height = <<>>],
          [sized EXCEPT !.image.width = <<"0">>, !.image.height = <<"0">>] }

InitBox == InitFrom(BoxBounds, BoxArtifacts)
NextBox == PointerStep(BoxBounds) \/ KeyStep(BoxBounds) \/ Save(BoxBounds)
           \/ SaveDone \/ SaveRejected \/ LoadDone
SpecBox == InitBox /\ [][NextBox]_vars

-----------------------------------------------------------------------------
(* Transform properties *)

\* device points the transform properties are evaluated at
DevicePts == {IPt(0, 0), IPt(14, 16), IPt(30, 7)}

\* C6: a zoom event at device point p leaves toVirtual(p) as it was before
\* the event, clamped or not; and so would a zoom event at any device point,
\* in either direction, from any reachable transform.
C6_ZoomAnchored ==
    [][
        /\ lastOp'.name = "wheel" =>
            toVirtualAt(lastOp'.at.x, lastOp'.at.y, rect', offset', scale')
              = toVirtualAt(lastOp'.at.x, lastOp'.at.y, rect, offset, scale)
        /\ \A p \in DevicePts, deltaY \in WheelDeltas :
              LET z == handleWheelZoom(deltaY, p.x, p.y, rect, offset, scale)
              IN  toVirtualAt(p.x, p.y, rect, z[2], z[1]) = toVirtual(p.x, p.y)
       ]_vars

\* the wheel was turned at the smallest scale, with the view moved off its
\* initial offset by the zooms before it
C6_Witness ==
    /\ lastOp.name = "wheel"
    /\ scale = MinScale
    /\ offset.x # Zero /\ offset.y # Zero
    /\ rect.left = Zero

\* C7 as stated: toScreen(toVirtual(p)) = p for every canvas position
C7_AsStated ==
    \A p \in DevicePts :
        LET v == toVirtual(p.x, p.y) IN toScreen(v.x, v.y) = p

\* C7 (amended): for every transform, canvas position and device point p,
\* toScreen(toVirtual(p)) is p relative to the canvas's top-left corner,
\* (p.x - rect.left, p.y - rect.top); it is p itself only for a canvas whose
\* bounding rectangle starts at the viewport origin.
C7_ScreenIsCanvasLocal ==
    /\ \A p \in DevicePts :
          LET v == toVirtual(p.x, p.y)
          IN  toScreen(v.x, v.y) = Pt(RSub(p.x, rect.left), RSub(p.y, rect.top))
    /\ (rect.left = Zero /\ rect.top = Zero) => C7_AsStated

\* a point was captured through a zoomed and panned view of a canvas that
\* is not at the viewport origin
C7_Witness ==
    /\ lastOp.name = "capture"
    /\ scale # Num(1)
    /\ offset.x # Zero /\ offset.y # Zero
    /\ rect.left # Zero /\ rect.top # Zero

\* C8: in every reachable state scale lies in [0.1, 5.0], so it is > 0.
C8_ScaleInRange ==
    /\ ~ RLt(scale, MinScale)
    /\ ~ RLt(MaxScale, scale)
    /\ RLt(Zero, scale)

\* the wheel was turned at the largest scale, with a committed stroke
C8_Witness ==
    /\ lastOp.name = "wheel"
    /\ scale = MaxScale
    /\ Len(strokes) = 1

-----------------------------------------------------------------------------
(* Codec properties *)

\* stroke lists appended to the drawn ones when the round trip is evaluated:
\* none, a single-point stroke, and that stroke followed by a three-point one
CodecSamples ==
    {<<>>,
     <<<<IPt(0, 0)>>>>,
     <<<<IPt(0, 0)>>, <<Pt(<<-5, 4>>, Num(7)), IPt(12, 0), Pt(<<1, 2>>, Num(-3))>>>>}

\* C2: with strokes non-empty and no gesture in progress, the artifact save
\* hands to the asset writer loads back to exactly the strokes it was made
\* from (same count, order and untranslated coordinates), and so does the
\* artifact of the same strokes followed by further ones; and the strokes a
\* load installs serialize to the description the stored artifact carries.
C2_RoundTrip ==
    [][
        /\ (lastOp'.name = "save" /\ Len(pendingSave') > Len(pendingSave)
              /\ strokes # <<>> /\ currentStroke = <<>>) =>
            /\ loadParsed(Last(pendingSave').content, <<>>, NoBackground)[1] = strokes
            /\ \A more \in CodecSamples :
                  loadParsed(generateSvg(strokes \o more, <<>>, background),
                             <<>>, NoBackground)[1] = strokes \o more
        /\ lastOp'.name = "loadDone" =>
            EncodeQuotes(JSONstringify(strokes'))
              = FileContent(assets, Head(pendingLoad)).desc
       ]_vars

\* a saved stroke with negative and fractional coordinates is back after
\* the block was reopened
C2_Witness ==
    /\ lastOp.name = "loadDone"
    /\ Len(strokes) = 1
    /\ strokes[1] = <<Pt(<<1, 2>>, Num(-3)), Pt(<<-5, 4>>, Num(7))>>

\* C9: with zero strokes, no gesture in progress and no background,
\* generateSvg yields no artifact and save emits cancel without reaching the
\* asset writer and without changing the block's reference; with zero
\* strokes and a background, generateSvg does yield an artifact.
C9_EmptyYieldsNoArtifact ==
    [][
        /\ (strokes = <<>> /\ currentStroke = <<>> /\ background.href = "") =>
            /\ generateSvg(strokes, currentStroke, background) = NoArtifact
            /\ lastOp'.name = "save" =>
                /\ emitted' = "cancel"
                /\ UNCHANGED <<pendingSave, clock, markdown, assets>>
        /\ (strokes = <<>> /\ currentStroke = <<>> /\ background.href # "") =>
            /\ generateSvg(strokes, currentStroke, background) # NoArtifact
            /\ lastOp'.name = "save" => emitted' # "cancel"
       ]_vars

\* save ran on an empty surface and emitted cancel
C9_Witness ==
    /\ lastOp.name = "save"
    /\ emitted = "cancel"
    /\ strokes = <<>> /\ currentStroke = <<>> /\ background.href = ""
    /\ pendingSave = <<>> /\ assets = <<>> /\ markdown = NoRef

-----------------------------------------------------------------------------
(* Save properties *)

\* what loadFromMarkdown would install on a fresh surface from artifact art
DecodesTo(art) == loadParsed(art, <<>>, NoBackground)

\* C15 as stated: every save on a surface that holds the background of the
\* stored artifact its block refers to, issued with no load pending, reaches
\* the writer with an artifact that decodes to the strokes
\* and background held at that time, and that artifact is what the storage
\* holds once the write resolves.
C15_AsStated ==
    [][
        /\ (lastOp'.name = "save" /\ markdown # NoRef /\ pendingLoad = <<>>
               /\ HasFile(assets, Referenced)
               /\ DecodesTo(FileContent(assets, Referenced))[2] = background
               /\ currentStroke = <<>>) =>
            /\ Len(pendingSave') = Len(pendingSave) + 1
            /\ DecodesTo(Last(pendingSave').content) = <<strokes, background, FALSE>>
        /\ lastOp'.name = "saveDone" =>
            FileContent(assets', loadTargetPath(markdown', currentFilePath)) = Head(pendingSave).content
       ]_vars

\* C15, amended: a save from a state with strokes or a background reaches
\* the writer with an artifact that decodes to exactly the strokes and the
\* background held at that time, and once the write resolves the storage
\* holds that artifact, whole, under the name the block refers to, and no
\* other file of that name; a save from a state with no strokes and no
\* background writes nothing, so the artifact the block refers to keeps
\* the strokes of the previous save.
C15_SaveReplacesArtifact ==
    [][
        /\ (lastOp'.name = "save" /\ currentStroke = <<>>
               /\ (strokes # <<>> \/ background.href # "")) =>
            /\ Len(pendingSave') = Len(pendingSave) + 1
            /\ DecodesTo(Last(pendingSave').content) = <<strokes, background, FALSE>>
            /\ Last(pendingSave').name =
                  saveTargetPath(currentFilePath, saveFileName(markdown, clock + 1))
        /\ (lastOp'.name = "save" /\ currentStroke = <<>>
               /\ strokes = <<>> /\ background.href = "") =>
            /\ UNCHANGED <<assets, markdown, pendingSave>>
            /\ emitted' = "cancel"
        /\ lastOp'.name = "saveDone" =>
            \E target \in {loadTargetPath(markdown', currentFilePath)} :
                /\ target = Head(pendingSave).name
                /\ FileContent(assets', target) = Head(pendingSave).content
                /\ Cardinality({i \in DOMAIN assets' : assets'[i].name = target}) = 1
                /\ \A i \in DOMAIN assets :
                      assets[i].name # target => assets'[i] = assets[i]
       ]_vars

\* all strokes of a reopened drawing were undone and the save wrote nothing:
\* the stored artifact still decodes to the stroke
C15_Witness ==
    /\ lastOp.name = "save"
    /\ emitted = "cancel"
    /\ markdown # NoRef
    /\ strokes = <<>>
    /\ redoStack # <<>>
    /\ HasFile(assets, Referenced)
    /\ DecodesTo(FileContent(assets, Referenced))[1] # <<>>

\* C16 as stated: when a save completes with no other event since the call,
\* redoStack is empty and strokes is as it was, and a redo issued right after
\* it changes nothing.
C16_AsStated ==
    [][
        /\ (lastOp.name = "save" /\ emitted = "" /\ lastOp'.name = "saveDone") =>
            /\ redoStack' = <<>>
            /\ strokes' = strokes
        /\ (lastOp.name = "saveDone" /\ lastOp'.name = "redo") =>
            strokes' = strokes
       ]_vars

\* C16, what the code does: no step of a save (the call, the resolved write,
\* the rejected write) changes strokes or redoStack.
C16_SaveKeepsRedoStack ==
    [][
        lastOp'.name \in {"save", "saveDone", "saveRejected"} =>
            UNCHANGED <<strokes, redoStack>>
       ]_vars

\* a save completed and an undone stroke is still on redoStack
C16_Witness ==
    /\ lastOp.name = "saveDone"
    /\ emitted = "save"
    /\ redoStack # <<>>

\* C18: when the asset write of a save is rejected, strokes, redoStack, the
\* in-progress buffer, the transform, the tool, the background, the block's
\* reference and the storage are exactly as before, and no event is emitted;
\* if the rejected write is that of the last call and nothing else happened
\* since, a save issued next hands the writer the same artifact, under the
\* same file name when the block has a reference.
C18_RejectedSaveChangesNothing ==
    [][
        lastOp'.name = "saveRejected" =>
            /\ UNCHANGED <<strokes, redoStack, currentStroke, scale, offset,
                           currentTool, background, isDrawing, isPanning>>
            /\ UNCHANGED <<markdown, assets>>
            /\ emitted' = ""
            /\ (lastOp.name = "save" /\ emitted = "" /\ Len(pendingSave) = 1) =>
                /\ generateSvg(strokes', currentStroke', background')
                      = Head(pendingSave).content
                /\ markdown' # NoRef =>
                      saveFileName(markdown', clock' + 1) = Head(pendingSave).file
       ]_vars

\* the first write of a new drawing was rejected and the retry was stored:
\* the block refers to the file of the second attempt and no file of the
\* first attempt exists
C18_Witness ==
    /\ lastOp.name = "saveDone"
    /\ emitted = "save"
    /\ markdown = savedMarkdown(currentFilePath, DrawingName(2), 2)
    /\ HasFile(assets, saveTargetPath(currentFilePath, DrawingName(2)))
    /\ ~ HasFile(assets, saveTargetPath(currentFilePath, DrawingName(1)))
    /\ DecodesTo(FileContent(assets, Referenced))[1] = strokes

-----------------------------------------------------------------------------
(* Reference properties *)

\* the document's name holds none of the characters that end the reference
\* or start its query suffix
PlainName(path) ==
    \A i \in 1 .. Len(currentFileName(path)) :
        currentFileName(path)[i] \notin {")", "?"}

\* the stored files
FileNames(fs) == { fs[i].name : i \in 1 .. Len(fs) }

\* C21 as stated: for every document file name and directory, a save of a
\* block that has a reference writes to the file that reference was written
\* for, a save of a block without one writes to a freshly named file, and the
\* reference written on completion resolves, query suffix stripped, to
\* exactly the storage path that save wrote.
C21_AsStated ==
    [][
        /\ (lastOp'.name = "save" /\ Len(pendingSave') = Len(pendingSave) + 1) =>
              IF markdown # NoRef
              THEN Last(pendingSave').name \in FileNames(assets)
              ELSE Last(pendingSave').name =
                      saveTargetPath(currentFilePath, DrawingName(clock + 1))
        /\ lastOp'.name = "saveDone" =>
              /\ loadTargetPath(markdown', currentFilePath) = Head(pendingSave).name
              /\ HasFile(assets', loadTargetPath(markdown', currentFilePath))
       ]_vars

\* C21 for the documents the code handles: when the document's name holds
\* no ")" and no "?", the artifact's name is reused and the written
\* reference resolves to the written path; when it holds one, the written
\* reference resolves to a path save did not write and the next save takes a
\* fresh name.
C21_PlainNamesRoundTrip ==
    [][
        /\ (lastOp'.name = "save" /\ Len(pendingSave') = Len(pendingSave) + 1) =>
              IF markdown # NoRef /\ PlainName(currentFilePath)
              THEN Last(pendingSave').name \in FileNames(assets)
              ELSE Last(pendingSave').name =
                      saveTargetPath(currentFilePath, DrawingName(clock + 1))
        /\ lastOp'.name = "saveDone" =>
              IF PlainName(currentFilePath)
              THEN /\ loadTargetPath(markdown', currentFilePath) = Head(pendingSave).name
                   /\ HasFile(assets', loadTargetPath(markdown', currentFilePath))
              ELSE /\ loadTargetPath(markdown', currentFilePath) # Head(pendingSave).name
                   /\ ~ HasFile(assets', loadTargetPath(markdown', currentFilePath))
       ]_vars

\* a save completed in a document whose name holds a ")" or a "?", and the
\* block's reference resolves to no stored file
C21_Witness ==
    /\ lastOp.name = "saveDone"
    /\ ~ PlainName(currentFilePath)
    /\ assets # <<>>
    /\ ~ HasFile(assets, Referenced)

-----------------------------------------------------------------------------
(* Load properties *)

\* the text of the description of the artifact the pending load reads
PendingText == TextContent(FileContent(assets, Head(pendingLoad)).desc, 1)

\* C17 as stated: a load that logged a failure leaves strokes as the mount
\* made it, a block without a reference mounts with strokes empty, and no
\* handler run afterwards throws.
C17_AsStated ==
    /\ [][ (lastOp'.name = "loadDone" /\ notified' = "log") => strokes' = strokes ]_vars
    /\ []((lastOp.name = "mount" /\ markdown = NoRef) => strokes = <<>>)
    /\ [](notified # "throw")

\* C17, the part that holds: a block without a reference starts no load and
\* mounts empty; a stored artifact without description text leaves strokes
\* alone and logs nothing; description text that is not JSON leaves strokes
\* and the background alone and is logged; and while strokes is an array no
\* handler throws.  Description text that is a JSON literal is installed as
\* strokes, which then is not an array.
C17_ParseFailureKeepsStrokes ==
    /\ [][
          /\ (lastOp'.name = "loadDone" /\ PendingText = <<>>) =>
                /\ strokes' = strokes
                /\ notified' = ""
          /\ (lastOp'.name = "loadDone" /\ PendingText # <<>>
                 /\ ~ JSONparse(PendingText).ok) =>
                /\ strokes' = strokes
                /\ background' = background
                /\ notified' = "log"
          /\ (lastOp'.name = "loadDone" /\ PendingText \in
                   {LiteralText(lit) : lit \in JSONLiterals}) =>
                /\ ~ IsArray(strokes')
                /\ notified' = "log"
          /\ IsArray(strokes) => notified' # "throw"
          /\ lastOp'.name \in {"loadDone", "loadRejected"} =>
                UNCHANGED <<isDrawing, isPanning, currentStroke, redoStack>>
         ]_vars
    /\ []((lastOp.name = "mount" /\ markdown = NoRef) =>
             (strokes = <<>> /\ pendingLoad = <<>>))

\* the stored description was the literal null, the load installed it as
\* strokes, and the undo that followed threw
C17_Witness ==
    /\ lastOp.name = "undo"
    /\ notified = "throw"
    /\ ~ IsArray(strokes)
    /\ pendingLoad = <<>>

\* C19 as stated: after every rejected write and every rejected read the
\* user has been shown an alert.
C19_AsStated ==
    lastOp.name \in {"saveRejected", "loadRejected"} => notified = "alert"

\* C19, what the code does: a rejected write is alerted, a rejected read is
\* only logged; both leave the surface, the block's reference and the storage
\* as they were and emit nothing.
C19_RejectionsAbort ==
    [][
        /\ lastOp'.name = "saveRejected" => notified' = "alert"
        /\ lastOp'.name = "loadRejected" => notified' = "log"
        /\ lastOp'.name \in {"saveRejected", "loadRejected"} =>
            /\ UNCHANGED <<strokes, redoStack, currentStroke, scale, offset,
                           background, markdown, assets>>
            /\ emitted' = ""
       ]_vars

\* the read of the artifact of a block with a reference was rejected and
\* only logged; the surface is empty
C19_Witness ==
    /\ lastOp.name = "loadRejected"
    /\ notified = "log"
    /\ markdown # NoRef
    /\ strokes = <<>>

-----------------------------------------------------------------------------
(* Independence of surfaces *)

PointerOps == {"startDraw", "startPan", "capture", "erase", "pan", "stopDraw", "stopPan"}

\* C20 as stated: no pointer event on one block and no undo/redo key pressed
\* while working on it changes the strokes, the redo stack, the in-progress
\* buffer or the transform of the other block.
C20_AsStated ==
    [][
        lastOp'.name \in PointerOps \cup {"undo", "redo"} =>
            /\ peers'[1].strokes = peers[1].strokes
            /\ peers'[1].redoStack = peers[1].redoStack
            /\ peers'[1].currentStroke = peers[1].currentStroke
            /\ peers'[1].scale = peers[1].scale
            /\ peers'[1].offset = peers[1].offset
       ]_vars

\* C20, the part that holds: a pointer event on the canvas of one block
\* changes no ref of the other block; and what a key does to the other
\* block is what its own handleKeydown does with that key.
C20_PointerEventsAreLocal ==
    [][
        /\ lastOp'.name \in PointerOps => peers' = peers
        /\ lastOp'.name \in {"undo", "redo", "Space"} =>
              peers'[1] = handleKeydownOn(peers[1], lastOp'.name)
       ]_vars

\* one ctrl+Z was pressed with a stroke on each block: both blocks have an
\* empty strokes and the stroke on their redo stack
C20_Witness ==
    /\ lastOp.name = "undo"
    /\ strokes = <<>> /\ Len(redoStack) = 1
    /\ peers[1].strokes = <<>> /\ Len(peers[1].redoStack) = 1

-----------------------------------------------------------------------------
(* Simplifier properties *)

\* C4: for every point sequence of length >= 2 handed to it, simplify
\* returns a sequence that starts with the input's first point and ends with
\* the input's last point; so does every stroke a gesture commits.
C4_SimplifyKeepsEndpoints ==
    [][
        /\ Len(currentStroke') >= 2 =>
            LET r == simplify(currentStroke', SmoothTolerance)
            IN  /\ Len(r) >= 2
                /\ r[1] = currentStroke'[1]
                /\ r[Len(r)] = currentStroke'[Len(currentStroke')]
        /\ (lastOp'.name = "stopDraw" /\ Len(currentStroke) >= 2) =>
            /\ Len(strokes') = Len(strokes) + 1
            /\ Last(strokes')[1] = currentStroke[1]
            /\ Last(Last(strokes')) = Last(currentStroke)
       ]_vars

\* a gesture committed a stroke from which the simplifier dropped points
C4_Witness ==
    /\ lastOp.name = "stopDraw"
    /\ Len(strokes) = 1
    /\ Len(strokes[1]) = 3
    /\ strokes[1][1] = IPt(0, 0)
    /\ strokes[1][2] = IPt(3, 1)
    /\ strokes[1][3] = IPt(3, 0)

\* C5: simplify(simplify(seq)) = simplify(seq) for every buffer seq and the
\* tolerance of smoothStroke, and every committed stroke is a fixed point of
\* the simplifier.
C5_SimplifyIdempotent ==
    /\ simplify(simplify(currentStroke, SmoothTolerance), SmoothTolerance)
          = simplify(currentStroke, SmoothTolerance)
    /\ \A i \in 1 .. Len(strokes) :
          simplify(strokes[i], SmoothTolerance) = strokes[i]

\* the buffer of the gesture is one the simplifier shortens
C5_Witness ==
    /\ isDrawing
    /\ Len(currentStroke) = MaxLen
    /\ Len(simplify(currentStroke, SmoothTolerance)) = 3

-----------------------------------------------------------------------------
(* Gesture properties *)

\* C11: a pointer-move of a pencil gesture appends the raw point to the
\* buffer and commits nothing; a pointer-up or pointer-leave of a pencil
\* gesture whose buffer has >= 1 point returns the surface to idle, empties
\* the buffer and appends to strokes exactly one element, the simplifier
\* applied once to the raw buffer; strokes grows at no other step; and with
\* no gesture active a further end event does nothing.
C11_OneStrokePerGesture ==
    /\ [][
            /\ lastOp'.name = "capture" =>
                /\ Len(currentStroke') = Len(currentStroke) + 1
                /\ Front(currentStroke') = currentStroke
                /\ Last(currentStroke') \in SimplifyPts
                /\ strokes' = strokes
                /\ isDrawing'
            /\ (lastOp'.name = "stopDraw" /\ currentTool = "pencil"
                  /\ Len(currentStroke) >= 1) =>
                /\ ~ isDrawing'
                /\ currentStroke' = <<>>
                /\ strokes' = Append(strokes, simplify(currentStroke, SmoothTolerance))
            /\ Len(strokes') > Len(strokes) => lastOp'.name = "stopDraw"
           ]_vars
    /\ [](~ isDrawing => ~ ENABLED StopDrawing(SimplifyBounds))

\* the gesture over the collinear run (0,0), (1,0), (2,0), (3,0) has ended
C11_Witness ==
    /\ lastOp.name = "stopDraw"
    /\ ~ isDrawing
    /\ currentStroke = <<>>
    /\ strokes = <<<<IPt(0, 0), IPt(3, 0)>>>>

\* C13 as stated: the events of a pan gesture (its pointer-down, pointer-moves
\* and pointer-up) leave strokes, the buffer, redoStack and scale as they
\* were; no point enters the buffer while the pan lasts; undo leaves offset
\* as the pan set it.
C13_AsStated ==
    [][
        /\ lastOp'.name \in {"startPan", "pan", "stopPan"} =>
              UNCHANGED <<strokes, currentStroke, redoStack, scale>>
        /\ isPanning => currentStroke' = currentStroke
        /\ lastOp'.name = "undo" => offset' = offset
       ]_vars

\* C13, the part that holds: the events of a pan gesture change nothing but
\* offset, lastPan and isPanning; a pointer-move while the pan lasts captures
\* and erases nothing; undo leaves offset as the pan set it.
C13_PanEventsMoveOffsetOnly ==
    [][
        /\ lastOp'.name \in {"startPan", "pan", "stopPan"} =>
              UNCHANGED <<strokes, currentStroke, redoStack, scale, isDrawing,
                          currentTool, background>>
        /\ lastOp'.name \in {"startPan", "stopPan"} => offset' = offset
        /\ isPanning => lastOp'.name \notin {"capture", "erase"}
        /\ lastOp'.name = "undo" => offset' = offset
       ]_vars

\* a left-button press arrived while a middle-button pan was in progress
C13_Witness ==
    /\ isPanning
    /\ isDrawing
    /\ lastOp.name = "startDraw"
    /\ Len(currentStroke) = 1

\* a buffer whose points are all the same point: a pointer-down with no
\* pointer-move, or moves that stay on the point
Degenerate(buffer) ==
    Len(buffer) >= 1 /\ \A i \in 1 .. Len(buffer) : buffer[i] = buffer[1]

\* C12 as stated: a degenerate pencil gesture adds nothing to strokes
C12_AsStated ==
    [][
        (lastOp'.name = "stopDraw" /\ currentTool = "pencil" /\ Degenerate(currentStroke))
            => strokes' = strokes
       ]_vars

\* C12 (amended): a degenerate pencil gesture is committed like any other:
\* a pointer-down with no pointer-move appends a one-point stroke, and a
\* gesture of two or more identical points appends the two-point stroke
\* <<p, p>>; a one-point stroke contributes no segment to the path of the
\* artifact but is written to its description, is what undo takes back and
\* is kept by the eraser wherever it passes.
C12_DegenerateStored ==
    [][
        (lastOp'.name = "stopDraw" /\ currentTool = "pencil" /\ Degenerate(currentStroke))
            => /\ Len(strokes') = Len(strokes) + 1
               /\ Front(strokes') = strokes
               /\ Last(strokes') = IF Len(currentStroke) = 1 THEN currentStroke
                                   ELSE <<currentStroke[1], currentStroke[1]>>
               /\ Len(currentStroke) = 1 =>
                     /\ Len(generateSvg(strokes', <<>>, background).path)
                          = Len(SelectSeq(strokes, LAMBDA stroke : Len(stroke) >= 2))
                     /\ generateSvg(strokes', <<>>, background).desc
                          = EncodeQuotes(JSONstringify(strokes'))
                     /\ undo(strokes', redoStack') = <<strokes, <<currentStroke>>>>
                     /\ \A p \in SimplifyPts :
                           eraseKeeps(Last(strokes'), p, Num(ERASER_RADIUS))
       ]_vars

\* a gesture of identical points has ended and left the stroke <<p, p>>
C12_Witness ==
    /\ lastOp.name = "stopDraw"
    /\ ~ isDrawing
    /\ strokes = <<<<IPt(1, 0), IPt(1, 0)>>>>

-----------------------------------------------------------------------------
(* Undo / redo properties *)

\* C1: in a state reached by draw gestures with strokes non-empty, undo()
\* removes exactly the last committed stroke and puts it on top of the redo
\* stack, and a redo() right after it restores strokes and redoStack exactly;
\* undo() on empty strokes and redo() on an empty redoStack change nothing;
\* redo() moves exactly the top redoStack entry back to the end of strokes.
C1_UndoRedoInverse ==
    [][
        /\ (lastOp'.name = "undo" /\ Len(strokes) > 0) =>
            /\ redo(strokes', redoStack') = <<strokes, redoStack>>
            /\ strokes' = Front(strokes)
            /\ Len(redoStack') = Len(redoStack) + 1
            /\ Last(redoStack') = Last(strokes)
            /\ Front(redoStack') = redoStack
        /\ (lastOp'.name = "undo" /\ Len(strokes) = 0) =>
            UNCHANGED <<strokes, redoStack>>
        /\ (lastOp'.name = "redo" /\ Len(redoStack) = 0) =>
            UNCHANGED <<strokes, redoStack>>
        /\ (lastOp'.name = "redo" /\ Len(redoStack) > 0) =>
            /\ Front(strokes') = strokes
            /\ Last(strokes') = Last(redoStack)
            /\ redoStack' = Front(redoStack)
            /\ undo(strokes', redoStack') = <<strokes, redoStack>>
       ]_vars

\* two strokes were drawn and one undo ran: lengths 1 / 1
C1_Witness ==
    /\ lastOp.name = "undo"
    /\ Len(strokes) = 1
    /\ Len(redoStack) = 1
    /\ ~ isDrawing

\* C10: a pointer-down that begins a draw gesture leaves redoStack empty, and
\* redoStack stays empty under every later event but an undo, so a redo
\* issued after the gesture began and before a further undo changes nothing.
C10_RedoClearedOnDraw ==
    [][
        /\ lastOp'.name = "startDraw" => redoStack' = <<>>
        /\ (redoStack = <<>> /\ lastOp'.name # "undo") => redoStack' = <<>>
        /\ (redoStack = <<>> /\ lastOp'.name = "redo") => strokes' = strokes
       ]_vars

\* a draw gesture has just begun with the pencil and dropped undone strokes
C10_Witness ==
    /\ lastOp.name = "startDraw"
    /\ lastOp.n > 0
    /\ currentTool = "pencil"
    /\ isDrawing
    /\ redoStack = <<>>

\* how many times stroke s occurs in strokes and redoStack together
Held(st, rd, s) ==
    Cardinality({i \in DOMAIN st : st[i] = s})
        + Cardinality({i \in DOMAIN rd : rd[i] = s})

Range(seq) == {seq[i] : i \in DOMAIN seq}

\* C14: a stroke removed by the eraser is held nowhere afterwards, and undo
\* and redo only move strokes between strokes and redoStack: an erase event
\* leaves redoStack as it was and lowers by one the number of copies held of
\* each stroke it removes; undo and redo leave the number of copies held of
\* every stroke unchanged; the only event that raises it is the commit of a
\* new pencil gesture.  So no undo/redo sequence puts the erased stroke back.
C14_ErasedNotRecoverable ==
    [][
        /\ lastOp'.name = "erase" =>
            /\ redoStack' = redoStack
            /\ \A s \in Range(strokes) :
                  Held(strokes', redoStack', s) =
                      IF eraseKeeps(s, lastOp'.at,
                                    RMul(RDiv(Num(ERASER_RADIUS), scale),
                                         RDiv(Num(ERASER_RADIUS), scale)))
                      THEN Held(strokes, redoStack, s)
                      ELSE Held(strokes, redoStack, s)
                              - Cardinality({i \in DOMAIN strokes : strokes[i] = s})
        /\ lastOp'.name \in {"undo", "redo"} =>
            \A s \in Range(strokes) \cup Range(redoStack)
                     \cup Range(strokes') \cup Range(redoStack') :
                Held(strokes', redoStack', s) = Held(strokes, redoStack, s)
        /\ \A s \in Range(strokes') \cup Range(redoStack') :
              Held(strokes', redoStack', s) > Held(strokes, redoStack, s) =>
                  /\ lastOp'.name = "stopDraw"
                  /\ currentTool = "pencil"
                  /\ s = simplify(currentStroke, SmoothTolerance)
       ]_vars

\* the eraser removed a stroke while an undone stroke waited on redoStack
C14_Witness ==
    /\ lastOp.name = "erase"
    /\ lastOp.n >= 1
    /\ Len(redoStack) > 0

-----------------------------------------------------------------------------
(* Eraser properties *)

Dot(a, b, c) ==
    RAdd(RMul(RSub(b.x, a.x), RSub(c.x, a.x)), RMul(RSub(b.y, a.y), RSub(c.y, a.y)))
Cross(a, b, c) ==
    RSub(RMul(RSub(b.x, a.x), RSub(c.y, a.y)), RMul(RSub(b.y, a.y), RSub(c.x, a.x)))
SqLen(a, b) == Dot(a, b, b)

\* the distance from p to the segment a-b is below r (r > 0): p is within r
\* of an end point, or its foot lies inside the segment and p is within r of
\* the line
NearSegment(p, a, b, r) ==
    LET rr == RMul(r, r)
    IN  \/ RLt(SqLen(p, a), rr)
        \/ RLt(SqLen(p, b), rr)
        \/ /\ RLt(Zero, Dot(a, b, p))
           /\ RLt(Zero, Dot(b, a, p))
           /\ RLt(RMul(Cross(a, b, p), Cross(a, b, p)), RMul(rr, SqLen(a, b)))

NearStroke(stroke, p, r) ==
    \E i \in 1 .. Len(stroke) - 1 : NearSegment(p, stroke[i], stroke[i + 1], r)

\* C3: an erase event at virtual point p with radius ERASER_RADIUS / scale
\* removes exactly the committed strokes that have a segment at distance
\* below the radius from p; the others stay, in order, with their points
\* unchanged.  Erasing at (5,0) with radius 1 removes [(0,0),(10,0)].
C3_EraserWholeStroke ==
    [][
        lastOp'.name = "erase" =>
        /\ strokes' = SelectSeq(strokes,
               LAMBDA stroke :
                   ~ NearStroke(stroke, lastOp'.at, RDiv(Num(ERASER_RADIUS), scale)))
        /\ ~ eraseKeeps(<<IPt(0, 0), IPt(10, 0)>>, IPt(5, 0), Num(1))
       ]_vars

\* an erase event removed one stroke and kept another
C3_Witness ==
    /\ lastOp.name = "erase"
    /\ lastOp.n = 1
    /\ Len(strokes) = 1
    /\ Len(strokes[1]) >= 2

-----------------------------------------------------------------------------
(* Mode properties *)

\* C22 as stated: in no reachable state are drawing mode and panning mode
\* both active, whatever the order of presses (primary or middle button,
\* with or without the space key), moves, releases and leaves.
C22_AsStated == ~ (isDrawing /\ isPanning)

\* C22 for gestures of one button: a press on a surface in neither mode
\* leaves it in exactly one, and the two modes become active together only
\* by a press that arrives while the other mode's gesture is still open.
C22_OnePressOneMode ==
    [][
        /\ (lastOp'.name \in {"startPan", "startDraw"} /\ ~ isDrawing /\ ~ isPanning) =>
              (isDrawing' # isPanning')
        /\ (isDrawing' /\ isPanning' /\ ~ (isDrawing /\ isPanning)) =>
              /\ lastOp'.name \in {"startPan", "startDraw"}
              /\ isDrawing \/ isPanning
       ]_vars

\* the middle button went down during a draw gesture: both modes are active
C22_Witness ==
    /\ isDrawing
    /\ isPanning
    /\ lastOp.name = "startPan"
    /\ currentStroke # <<>>

-----------------------------------------------------------------------------
(* Pending storage operations *)

\* the operations pointer, keyboard and wheel events run
InputOps == PointerOps \cup {"undo", "redo", "wheel", "Space", "SpaceUp", "tool"}

\* a load or a save has started and has not completed
StoragePending == pendingLoad # <<>> \/ pendingSave # <<>>

\* C23 as stated: while a load or a save is pending no pointer, keyboard or
\* wheel event changes strokes, redoStack or the in-progress buffer, so the
\* completion of a load installs its strokes on the list it started from.
C23_AsStated ==
    [][
        (StoragePending /\ lastOp'.name \in InputOps) =>
            UNCHANGED <<strokes, redoStack, currentStroke>>
      ]_vars

\* C23 as the code has it: input is handled while an operation is pending,
\* and the completion of a load whose artifact holds an encoding that parses
\* replaces the whole list by the artifact's strokes, whatever was committed
\* since the load started; no completion touches redoStack or the
\* in-progress buffer.
C23_LoadReplacesWholeList ==
    [][
        /\ (lastOp'.name = "loadDone" /\ PendingText # <<>>
               /\ JSONparse(PendingText).ok) =>
              strokes' = JSONparse(PendingText).val
        /\ lastOp'.name \in {"loadDone", "loadRejected", "saveDone", "saveRejected"} =>
              UNCHANGED <<redoStack, currentStroke, isDrawing, isPanning>>
        /\ (StoragePending /\ lastOp'.name = "stopDraw" /\ IsArray(strokes)
               /\ currentTool = "pencil" /\ isDrawing /\ ~ isPanning
               /\ currentStroke # <<>>) =>
              Len(strokes') = Len(strokes) + 1
      ]_vars

\* a stroke was committed while the load of the block's artifact is pending
C23_Witness ==
    /\ pendingLoad # <<>>
    /\ lastOp.name = "stopDraw"
    /\ Len(strokes) = 1
    /\ currentStroke = <<>>

\* C24 as stated: when the surface is cancelled while a write is pending,
\* the completion of that write does not update the block's reference and
\* emits no save event.
C24_AsStated ==
    [][
        (lastOp.name = "cancel" /\ pendingSave # <<>> /\ lastOp'.name = "saveDone") =>
            /\ markdown' = markdown
            /\ emitted' # "save"
      ]_vars

\* C24 as the code has it: a cancel leaves the pending write, the reference
\* and the storage alone, and every write that resolves stores its artifact,
\* points the block at it and emits save, cancelled in between or not.
C24_CompletionAlwaysApplies ==
    [][
        /\ lastOp'.name = "cancel" =>
              /\ UNCHANGED <<pendingSave, markdown, assets>>
              /\ emitted' = "cancel"
        /\ lastOp'.name = "saveDone" =>
              /\ markdown' = savedMarkdown(currentFilePath, Head(pendingSave).file,
                                           Head(pendingSave).t)
              /\ HasFile(assets', Head(pendingSave).name)
              /\ emitted' = "save"
      ]_vars

\* the surface was cancelled while a write is pending
C24_Witness ==
    /\ lastOp.name = "cancel"
    /\ emitted = "cancel"
    /\ pendingSave # <<>>

-----------------------------------------------------------------------------
(* The two encodings of an artifact *)

\* the polyline of artifact art is the strokes of list, in order, each moved
\* by one common translation
Reconstructs(art, list) ==
    /\ Len(art.path) = Len(list)
    /\ Len(list) > 0 =>
          LET ox == RSub(list[1][1].x, art.path[1][1].x)
              oy == RSub(list[1][1].y, art.path[1][1].y)
          IN  \A i \in 1 .. Len(list) : art.path[i] = Translated(list[i], ox, oy)

\* the strokes a polyline can show: those of two points or more
Drawable(list) == SelectSeq(list, LAMBDA stroke : Len(stroke) >= 2)

\* C25 as stated: in every artifact save hands to the writer, the polyline
\* reconstructs exactly the strokes the authoritative encoding decodes to,
\* translated by the bounding-box origin, with no extra and no missing
\* stroke, also when save runs in the middle of a gesture or a stroke has a
\* single point.
C25_AsStated ==
    [][
        (lastOp'.name = "save" /\ Len(pendingSave') = Len(pendingSave) + 1) =>
            Reconstructs(Last(pendingSave').content,
                         DecodesTo(Last(pendingSave').content)[1])
      ]_vars

\* C25 as the code has it: the polyline shows the committed strokes and the
\* in-progress buffer that have two points or more, while the encoding holds
\* the committed strokes only, single points included; the two agree when no
\* gesture is open and every committed stroke has two points or more.
C25_PolylineShowsDrawableStrokes ==
    [][
        (lastOp'.name = "save" /\ Len(pendingSave') = Len(pendingSave) + 1) =>
            LET art == Last(pendingSave').content
                all == strokes \o (IF currentStroke # <<>> THEN <<currentStroke>> ELSE <<>>)
            IN  /\ Reconstructs(art, Drawable(all))
                /\ DecodesTo(art)[1] = strokes
                /\ (currentStroke = <<>> /\ Drawable(strokes) = strokes) =>
                      Reconstructs(art, DecodesTo(art)[1])
      ]_vars

\* a save reached the writer with an artifact whose encoding holds a stroke
\* of a single point that its polyline does not show
C25_Witness ==
    /\ lastOp.name = "save"
    /\ pendingSave # <<>>
    /\ currentStroke = <<>>
    /\ \E i \in 1 .. Len(strokes) : Len(strokes[i]) = 1
    /\ Len(Last(pendingSave).content.path) < Len(strokes)

-----------------------------------------------------------------------------
(* The background of an artifact *)

\* what save hands to the writer: committed strokes and an open gesture
Inked == strokes \o (IF currentStroke # <<>> THEN <<currentStroke>> ELSE <<>>)

\* In artifact art every ink point lies, from the background's corner, where
\* the point of list it shows lies from the background's corner in virtual
\* space, which is the origin there.
BackgroundOffsetKept(art, list) ==
    /\ Len(art.path) = Len(list)
    /\ \A i \in 1 .. Len(list) : \A j \in 1 .. Len(list[i]) :
          /\ RSub(art.path[i][j].x, art.image.x) = list[i][j].x
          /\ RSub(art.path[i][j].y, art.image.y) = list[i][j].y

\* C26 as stated: in every artifact with a background, image or markup, the
\* background and the polyline are shifted by the same bounding-box origin.
C26_AsStated ==
    [][
        (lastOp'.name = "save" /\ Len(pendingSave') = Len(pendingSave) + 1
            /\ Last(pendingSave').content.image.href # "") =>
            BackgroundOffsetKept(Last(pendingSave').content, Drawable(Inked))
      ]_vars

\* C26 as the code has it: an image background is written at 0 - minX,
\* 0 - minY and keeps its offset to the ink; a markup background is written
\* at 0, 0 while the ink is moved by the padded corner of the ink's bounding
\* box, so the offset is kept only when that corner is the origin.
C26_ImageShiftedMarkupNot ==
    [][
        (lastOp'.name = "save" /\ Len(pendingSave') = Len(pendingSave) + 1
            /\ Last(pendingSave').content.image.href # "") =>
            LET art == Last(pendingSave').content
                pts == AllPoints(Inked)
                minX == RSub(FoldMin(Infinity, Xs(pts), 1), Num(Padding))
                minY == RSub(FoldMin(Infinity, Ys(pts), 1), Num(Padding))
            IN  IF art.image.width # FullSize
                THEN BackgroundOffsetKept(art, Drawable(Inked))
                ELSE /\ art.image.x = Zero /\ art.image.y = Zero
                     /\ Len(art.path) = Len(Drawable(Inked))
                     /\ \A i \in 1 .. Len(art.path) :
                           art.path[i] = Translated(Drawable(Inked)[i], minX, minY)
                     /\ BackgroundOffsetKept(art, Drawable(Inked)) <=>
                           (Drawable(Inked) = <<>> \/ (minX = Zero /\ minY = Zero))
      ]_vars

\* a save reached the writer with a markup background at 0, 0 and ink that
\* was moved
C26_Witness ==
    /\ lastOp.name = "save"
    /\ pendingSave # <<>>
    /\ Last(pendingSave).content.image.width = FullSize
    /\ Last(pendingSave).content.image.x = Zero
    /\ Len(Last(pendingSave).content.path) > 0
    /\ Last(pendingSave).content.path[1] # Drawable(Inked)[1]

-----------------------------------------------------------------------------
(* The in-progress buffer *)

\* C27 as stated: currentStroke is non-empty only while a draw gesture is
\* active; when none is, the buffer is empty and a move appends nothing.
C27_AsStated == currentStroke # <<>> => isDrawing

\* C27 as the code has it: while strokes.value is an array, a non-empty
\* buffer implies an active draw gesture, and outside a gesture only a press
\* that starts one, or a new mount, changes the buffer; a release that throws
\* before the buffer is reset ends the gesture and leaves the buffer as it
\* was.
C27_BufferFollowsGesture ==
    /\ [](IsArray(strokes) => (currentStroke # <<>> => isDrawing))
    /\ [][
          /\ (~ isDrawing /\ currentStroke' # currentStroke) =>
                \/ lastOp'.name = "startDraw" /\ isDrawing'
                \/ lastOp'.name = "mount" /\ currentStroke' = <<>>
          /\ (lastOp'.name = "stopDraw" /\ notified' = "throw") =>
                (~ isDrawing' /\ currentStroke' = currentStroke)
          /\ (lastOp'.name = "stopDraw" /\ notified' # "throw") =>
                (~ isDrawing' /\ currentStroke' = <<>>)
         ]_vars

\* the release of a draw gesture threw: no gesture is active and the buffer
\* still holds the gesture's points
C27_Witness ==
    /\ lastOp.name = "stopDraw"
    /\ notified = "throw"
    /\ ~ isDrawing /\ ~ isPanning
    /\ currentStroke # <<>>

-----------------------------------------------------------------------------
(* The simplifier's tolerance *)

\* the indices 1, Len(points) and those of inner, in order
KeptIndices(points, inner) ==
    SelectSeq([i \in 1 .. Len(points) |-> i],
              LAMBDA i : i \in inner \cup {1, Len(points)})

\* out is points restricted to the indices idx, and every point of points
\* between two consecutive indices is within the tolerance of the segment
\* that joins the points at them
KeepsWithin(points, out, idx, tolerance) ==
    /\ out = [k \in 1 .. Len(idx) |-> points[idx[k]]]
    /\ \A k \in 1 .. Len(idx) - 1 :
          \A i \in (idx[k] + 1) .. (idx[k + 1] - 1) :
              ~ RLt(RMul(tolerance, tolerance),
                    getSqSegDist(points[i], points[idx[k]], points[idx[k + 1]]))

\* out is an order-preserving subsequence of points that keeps both ends
\* and drops only points within the tolerance
SimplifiedWithin(points, out, tolerance) ==
    \E inner \in SUBSET (2 .. Len(points) - 1) :
        KeepsWithin(points, out, KeptIndices(points, inner), tolerance)

\* C28: the stroke a gesture commits is an order-preserving subsequence of
\* the captured buffer in which every dropped point is within the smoothing
\* tolerance of the segment between the kept points around it; a buffer of
\* fewer than 3 points is committed unchanged; the buffer (0,0), (5,0),
\* (10,0) is committed as exactly (0,0), (10,0).
C28_SimplifiedWithinTolerance ==
    [][
        (lastOp'.name = "stopDraw" /\ currentStroke # <<>>) =>
            /\ Len(strokes') = Len(strokes) + 1
            /\ Len(currentStroke) < 3 => Last(strokes') = currentStroke
            /\ Len(currentStroke) >= 3 =>
                  SimplifiedWithin(currentStroke, Last(strokes'), SmoothTolerance)
            /\ currentStroke = <<IPt(0, 0), IPt(5, 0), IPt(10, 0)>> =>
                  Last(strokes') = <<IPt(0, 0), IPt(10, 0)>>
      ]_vars

\* the gesture over (0,0), (5,0), (10,0) was committed as two points
C28_Witness ==
    /\ lastOp.name = "stopDraw"
    /\ strokes = <<<<IPt(0, 0), IPt(10, 0)>>>>
    /\ currentStroke = <<>>

-----------------------------------------------------------------------------
(* The frame of an eraser gesture *)

\* the steps of a gesture: press, moves, release
GestureOps == {"startDraw", "erase", "capture", "stopDraw"}

\* a is b with some of its elements left out, the others in b's order
IsSubsequence(a, b) ==
    \E keep \in SUBSET (1 .. Len(b)) :
        LET idx == SelectSeq([i \in 1 .. Len(b) |-> i], LAMBDA i : i \in keep)
        IN  a = [k \in 1 .. Len(idx) |-> b[idx[k]]]

\* C29 as stated: a gesture made with the eraser changes nothing but which
\* strokes are in the list: the survivors keep their order and points, and
\* redoStack, scale and offset are what they were before the gesture, also
\* when the gesture removes no stroke.
C29_AsStated ==
    [][
        (lastOp'.name \in GestureOps /\ currentTool = "eraser") =>
            /\ IsSubsequence(strokes', strokes)
            /\ UNCHANGED <<redoStack, scale, offset>>
      ]_vars

\* C29 as the code has it: the steps of an eraser gesture keep scale and
\* offset and the order and points of the surviving strokes; the press
\* removes no stroke and empties redoStack, whatever the gesture goes on to
\* do; the moves and the release leave redoStack alone, and the release
\* commits nothing.
C29_EraserPressClearsRedo ==
    [][
        (lastOp'.name \in GestureOps /\ currentTool = "eraser") =>
            /\ IsSubsequence(strokes', strokes)
            /\ UNCHANGED <<scale, offset>>
            /\ lastOp'.name = "startDraw" => (redoStack' = <<>> /\ strokes' = strokes)
            /\ lastOp'.name = "erase" => redoStack' = redoStack
            /\ lastOp'.name = "stopDraw" =>
                  (redoStack' = redoStack /\ strokes' = strokes)
      ]_vars

\* the eraser went down on a surface with undone strokes: redoStack is empty
\* and every stroke is still there
C29_Witness ==
    /\ lastOp.name = "startDraw"
    /\ currentTool = "eraser"
    /\ lastOp.n > 0
    /\ redoStack = <<>>
    /\ strokes # <<>>

-----------------------------------------------------------------------------
(* The size of an artifact *)

\* a is a number and lo <= a <= hi
Between(a, lo, hi) ==
    /\ a \notin {Infinity, NegInfinity}
    /\ ~ RLt(a, lo)
    /\ ~ RLt(hi, a)

\* width and height of art are finite and at least twice the padding, and
\* every coordinate of its polyline is inside the artifact
WellSized(art) ==
    /\ art.width \notin {Infinity, NegInfinity}
    /\ art.height \notin {Infinity, NegInfinity}
    /\ ~ RLt(art.width, Num(2 * Padding))
    /\ ~ RLt(art.height, Num(2 * Padding))
    /\ \A i \in 1 .. Len(art.path) : \A j \in 1 .. Len(art.path[i]) :
          /\ Between(art.path[i][j].x, Zero, art.width)
          /\ Between(art.path[i][j].y, Zero, art.height)

\* C30 as stated: every artifact save hands to the writer has a finite width
\* and height of at least 40 and a polyline inside them, also for a
\* background loaded with a missing or zero width and height and no strokes.
C30_AsStated ==
    [][
        (lastOp'.name = "save" /\ Len(pendingSave') = Len(pendingSave) + 1) =>
            WellSized(Last(pendingSave').content)
      ]_vars

\* C30 as the code has it: the artifact is well sized when there is ink or a
\* background of positive width and height; with a background of no size and
\* no ink its width and height are -Infinity.
C30_SizedWhenBoxed ==
    [][
        (lastOp'.name = "save" /\ Len(pendingSave') = Len(pendingSave) + 1) =>
            IF Inked # <<>> \/ (RLt(Zero, background.w) /\ RLt(Zero, background.h))
            THEN WellSized(Last(pendingSave').content)
            ELSE /\ background.href # ""
                 /\ Last(pendingSave').content.width = NegInfinity
                 /\ Last(pendingSave').content.height = NegInfinity
      ]_vars

\* a save reached the writer with an artifact of width -Infinity
C30_Witness ==
    /\ lastOp.name = "save"
    /\ pendingSave # <<>>
    /\ strokes = <<>> /\ currentStroke = <<>>
    /\ background.href # "" /\ background.w = Zero
    /\ Last(pendingSave).content.width = NegInfinity

====
